---- MODULE Spec2Model ----
(***************************************************************************)
(* Model of the Dataset attribute-serialization core of pennylane.data:    *)
(*   - the Attribute Type Registry (type_id table and value dispatch),      *)
(*   - the AttributeTypeMapper (lazy cache over one store group).           *)
(* The registry lives in pennylane/data/base/attribute.py, which is not    *)
(* part of the source tree at hand; it is modelled from the design text    *)
(* (sections 4.1 and 3).  The mapper is modelled from                       *)
(* pennylane/data/base/mapper.py and the attribute types from               *)
(* pennylane/data/attributes/*.py.                                          *)
(***************************************************************************)
EXTENDS Integers, Sequences, FiniteSets, TLC

(***************************************************************************)
(* Bounds of the model.                                                     *)
(***************************************************************************)
\* number of register calls explored in the registry specification
MaxRegistrations == 3
\* number of store nodes ever created in the mapper specification
MaxNodes == 2
\* number of wrapper instances ever created by the mapper
MaxWrappers == 2

(***************************************************************************)
(* Python classes of the values handed to the serializer, each with its    *)
(* method resolution order (most-derived class first).  The abstract base  *)
(* classes between Wires and object, and between the operator classes and  *)
(* object, are abbreviated to the ones a registered type may consume.      *)
(***************************************************************************)
PyTypes ==
    {"str", "NoneType", "float", "Sequence", "Wires",
     "PauliX", "Tensor", "Observable", "Operator", "object"}

MRO(t) ==
    CASE t = "str"        -> <<"str", "object">>
      [] t = "NoneType"   -> <<"NoneType", "object">>
      [] t = "float"      -> <<"float", "object">>
      [] t = "Sequence"   -> <<"Sequence", "object">>
      [] t = "Wires"      -> <<"Wires", "Sequence", "object">>
      [] t = "PauliX"     -> <<"PauliX", "Observable", "Operator", "object">>
      [] t = "MyPauliX"   -> <<"MyPauliX", "PauliX", "Observable", "Operator",
                               "object">>
      [] t = "Tensor"     -> <<"Tensor", "Observable", "Operator", "object">>
      [] t = "Observable" -> <<"Observable", "Operator", "object">>
      [] t = "Operator"   -> <<"Operator", "object">>
      [] t = "object"     -> <<"object">>
      [] t = "type"       -> <<"type", "object">>
      [] t = "int"        -> <<"int", "object">>
      [] t = "list"       -> <<"list", "object">>
      [] t = "dict"       -> <<"dict", "object">>

\* the classes of t's MRO, as a set
Ancestors(t) == {MRO(t)[i] : i \in 1..Len(MRO(t))}

\* S is a strict subclass of B
StrictSubclass(S, B) == S # B /\ B \in Ancestors(S)

(***************************************************************************)
(* Attribute Type classes.  "operator.DatasetOperator" is the class of      *)
(* attributes/operator.py, "DatasetOperator" the one of                     *)
(* attributes/operator/operator.py; both declare type_id "operator".       *)
(* DatasetWires is the class the dispatch test expects for Wires;          *)
(* UserString and UserSequence stand for Attribute Types defined by a      *)
(* user of the library.                                                     *)
(***************************************************************************)
AttrTypes ==
    {"DatasetString", "DatasetNone", "DatasetArray", "DatasetOperator",
     "operator.DatasetOperator", "DatasetWires", "UserString", "UserSequence"}

type_id(cls) ==
    CASE cls = "DatasetString"            -> "string"
      [] cls = "DatasetNone"              -> "none"
      [] cls = "DatasetArray"             -> "array"
      [] cls = "DatasetOperator"          -> "operator"
      [] cls = "operator.DatasetOperator" -> "operator"
      [] cls = "DatasetWires"             -> "wires"
      [] cls = "UserString"               -> "user_string"
      [] cls = "UserSequence"             -> "user_sequence"
      [] cls = "DatasetScalar"            -> "scalar"
      [] cls = "DatasetList"              -> "list"
      [] cls = "DatasetDict"              -> "dict"

TypeIds == {type_id(c) : c \in AttrTypes}

\* supported_ops(), restricted to Tensor, an observable without parameters,
\* a gate with one parameter and a gate on two wires
supported_ops == {"Tensor", "PauliX", "RX", "CNOT"}

\* every subclass of Operator (Operator itself is not among its subclasses)
_get_all_operator_classes == {t \in PyTypes : StrictSubclass(t, "Operator")}

consumes_types(cls) ==
    CASE cls = "DatasetString"            -> {"str"}
      [] cls = "DatasetNone"              -> {"NoneType"}
      [] cls = "DatasetArray"             -> {}
      [] cls = "DatasetOperator"          -> supported_ops
      [] cls = "operator.DatasetOperator" -> _get_all_operator_classes
      [] cls = "DatasetWires"             -> {"Wires"}
      [] cls = "UserString"               -> {"str"}
      [] cls = "UserSequence"             -> {"Sequence"}
      [] cls = "DatasetScalar"            -> {"int", "float"}
      [] cls = "DatasetList"              -> {"list"}
      [] cls = "DatasetDict"              -> {"dict"}

(***************************************************************************)
(* State.                                                                   *)
(***************************************************************************)
VARIABLES
    registry,                \* type_id -> Attribute Type class ("" = unbound)
    type_consumer_registry,  \* Python class -> Attribute Type class ("" = none)
    regOrder,                \* history: the classes registered, in order
    lastReg,                 \* outcome of the last register call
    lastMatch,               \* outcome of the last match_obj_type call
    bind,                    \* the mapper's group: key -> store node
    cache,                   \* the mapper's _cache: key -> wrapper
    nextNode,                \* identity of the next store node created
    nextWrapper,             \* identity of the next wrapper instance created
    last,                    \* the last mapper call and its outcome
    handed,                  \* history: wrapper last returned by get(key)
                             \* since the last set, move or delete of key
    resolutions,             \* history: registry resolutions of key since
                             \* the last eviction of key
    view,                    \* the mapping returned by the last view() call
    subject,                 \* the value handed to a conversion
    written,                 \* outcome of value -> store for subject
    readback,                \* outcome of store -> value for written
    dataset,                 \* a standard Dataset and the files behind it
    classes                  \* the Operator subclasses of the process and
                             \* the memoized class tables

regVars == <<registry, type_consumer_registry, regOrder, lastReg, lastMatch>>

mapVars == <<bind, cache, nextNode, nextWrapper, last, handed, resolutions,
            view>>

convVars == <<subject, written, readback>>

auxVars == <<dataset, classes>>

vars == <<registry, type_consumer_registry, regOrder, lastReg, lastMatch,
          bind, cache, nextNode, nextWrapper, last, handed, resolutions,
          view, subject, written, readback, dataset, classes>>

\* no conversion is under way
NoConversion == <<>>

\* no Dataset has been constructed
NoDataset == <<>>

\* the operator module has not been imported
NoClasses == <<>>

Unbound == ""

EmptyRegistry == [t \in TypeIds |-> Unbound]
EmptyConsumers == [t \in PyTypes |-> Unbound]

(***************************************************************************)
(* Registry: register, resolve by type_id, dispatch.                        *)
(***************************************************************************)
\* variant of RegisterConflict: a bound type_id is silently rebound
RegisterConflict_rebind(reg, cls) == FALSE

\* register: is the type_id of cls already bound to a different class?
RegisterConflict(reg, cls) ==
    reg[type_id(cls)] # Unbound /\ reg[type_id(cls)] # cls

\* register: the type_id table after cls has been added
RegisterTypeId(reg, cls) == [reg EXCEPT ![type_id(cls)] = cls]

\* variant of RegisterConsumers: a class that already has a consumer keeps it
RegisterConsumers_keepFirst(cons, cls) ==
    [t \in PyTypes |->
        IF t \in consumes_types(cls) /\ cons[t] = Unbound THEN cls ELSE cons[t]]

\* register: the dispatch table after cls has been added; cls takes over
\* every class it consumes
RegisterConsumers(cons, cls) ==
    [t \in PyTypes |-> IF t \in consumes_types(cls) THEN cls ELSE cons[t]]

\* resolve_by_type_id: the class bound to tid, or the failure
get_attribute_type(reg, tid) ==
    IF tid \in DOMAIN reg /\ reg[tid] # Unbound THEN reg[tid] ELSE "KeyError"

\* the first class of the sequence mro, from position i on, that some
\* registered type consumes
RECURSIVE WalkMRO(_, _, _)
WalkMRO(cons, mro, i) ==
    IF i > Len(mro) THEN "TypeError"
    ELSE IF mro[i] \in DOMAIN cons /\ cons[mro[i]] # Unbound THEN cons[mro[i]]
    ELSE WalkMRO(cons, mro, i + 1)

\* type(x): the class of a value, the metaclass of a type object
TypeOf(x) == IF x.kind = "type" THEN "type" ELSE x.cls

\* variant of DispatchType: the type of the argument is taken even when the
\* argument is a type object
DispatchType_typeOfType(x) == TypeOf(x)

\* the class whose MRO is walked: the argument itself if it is a type
\* object, the type of the argument otherwise
DispatchType(x) == IF x.kind = "type" THEN x.cls ELSE TypeOf(x)

\* the sequence s in reverse order
Reverse(s) == [i \in 1..Len(s) |-> s[Len(s) + 1 - i]]

\* variant of match_obj_type: the MRO is walked from the base class end
match_obj_type_baseFirst(cons, x) ==
    WalkMRO(cons, Reverse(MRO(DispatchType(x))), 1)

\* match_value / match_obj_type
match_obj_type(cons, x) == WalkMRO(cons, MRO(DispatchType(x)), 1)


(***************************************************************************)
(* Values.  A plain Python value carries its class and its content; a type *)
(* object carries the class it denotes; an Attribute Type instance         *)
(* (kind "attr") carries its Attribute Type class and the content of the   *)
(* node it is bound to.                                                     *)
(***************************************************************************)
Obj(c, d) == [kind |-> "obj", cls |-> c, data |-> d]
TypeObj(c) == [kind |-> "type", cls |-> c, data |-> ""]
AttrObj(c, d) == [kind |-> "attr", cls |-> c, data |-> d]

\* the arguments match_obj_type is called with: a value or a type object
DispatchArgs == {Obj(t, "") : t \in PyTypes} \cup {TypeObj(t) : t \in PyTypes}

(***************************************************************************)
(* Mapper state.                                                            *)
(***************************************************************************)
Keys == {"a", "b"}

NoNode == [id |-> -1, type_id |-> "", data |-> "", info |-> ""]
NoWrapper == [wid |-> -1, cls |-> "", node |-> -1]
NoInfo == ""

NoReq == ""
NoValue == [kind |-> "", cls |-> "", data |-> ""]

\* a record of one mapper call: the operation and its arguments, the outcome
\* (res), the wrapper returned (ret), the wrapper that was cached at key
\* when the call was made (stale) and the node the call created (made); the
\* arguments of the exception raised (args), the keys an iteration yielded
\* (keys), the length returned (len) and the number of conversions of a node
\* to a value the call ran (conv)
Call(op, key, dest, val, req, res, ret, stale, made) ==
    [op |-> op, key |-> key, dest |-> dest, val |-> val, req |-> req,
     res |-> res, ret |-> ret, stale |-> stale, made |-> made,
     args |-> <<>>, keys |-> {}, len |-> -1, conv |-> 0]

Idle == Call("init", "", "", NoValue, NoReq, "ok", NoWrapper, NoWrapper, -1)

EmptyGroup == [k \in Keys |-> NoNode]
EmptyCache == [k \in Keys |-> NoWrapper]

\* no view() call was made yet
NoView == [taken |-> FALSE, ref |-> TRUE, bind |-> EmptyGroup,
           cache |-> EmptyCache]

\* the registry after the classes of seq[1..n] have been registered in order
RECURSIVE RegistryAfter(_, _)
RegistryAfter(seq, n) ==
    IF n = 0 THEN EmptyRegistry
    ELSE RegisterTypeId(RegistryAfter(seq, n - 1), seq[n])

RECURSIVE ConsumersAfter(_, _)
ConsumersAfter(seq, n) ==
    IF n = 0 THEN EmptyConsumers
    ELSE RegisterConsumers(ConsumersAfter(seq, n - 1), seq[n])

\* the order in which pennylane.data.attributes imports the Attribute Types
\* that the mapper specification writes and reads
ImportOrder == <<"DatasetArray", "DatasetNone", "DatasetString">>

(***************************************************************************)
(* Registry specification: classes are registered one after the other and  *)
(* values are dispatched in between.                                        *)
(***************************************************************************)
InitRegistry ==
    /\ registry = EmptyRegistry
    /\ type_consumer_registry = EmptyConsumers
    /\ regOrder = <<>>
    /\ lastReg = [cls |-> "", res |-> "ok"]
    /\ lastMatch = [arg |-> TypeObj("object"), res |-> "TypeError", n |-> 0]
    /\ bind = EmptyGroup
    /\ cache = EmptyCache
    /\ nextNode = 0
    /\ nextWrapper = 0
    /\ last = Idle
    /\ handed = EmptyCache
    /\ resolutions = [k \in Keys |-> 0]
    /\ view = NoView
    /\ dataset = NoDataset
    /\ classes = NoClasses
    /\ subject = NoConversion
    /\ written = NoConversion
    /\ readback = NoConversion

\* register(type_id, cls)
register(cls) ==
    /\ Len(regOrder) < MaxRegistrations
    /\ IF RegisterConflict(registry, cls)
       THEN /\ lastReg' = [cls |-> cls, res |-> "ConflictError"]
            /\ UNCHANGED <<registry, type_consumer_registry, regOrder>>
       ELSE /\ registry' = RegisterTypeId(registry, cls)
            /\ type_consumer_registry' =
                   RegisterConsumers(type_consumer_registry, cls)
            /\ regOrder' = Append(regOrder, cls)
            /\ lastReg' = [cls |-> cls, res |-> "ok"]
    /\ UNCHANGED lastMatch
    /\ UNCHANGED <<mapVars, convVars, auxVars>>

\* match_value(value_or_type)
dispatch(x) ==
    /\ lastMatch' = [arg |-> x,
                     res |-> match_obj_type(type_consumer_registry, x),
                     n |-> Len(regOrder)]
    /\ UNCHANGED <<registry, type_consumer_registry, regOrder, lastReg>>
    /\ UNCHANGED <<mapVars, convVars, auxVars>>

NextRegistry ==
    \/ \E cls \in AttrTypes : register(cls)
    \/ \E x \in DispatchArgs : dispatch(x)

SpecRegistry == InitRegistry /\ [][NextRegistry]_vars


(***************************************************************************)
(* The store group the mapper is bound to.  Creating a child under a name  *)
(* that is taken, and moving onto a name that is taken, are refused by the  *)
(* store; looking up, deleting or moving a missing name raises KeyError.    *)
(***************************************************************************)
Outcome(res, b) == [res |-> res, bind |-> b]

\* key in group
GroupContains(b, key) == b[key] # NoNode

\* del group[key], for a key of the group
GroupDelete(b, key) == [b EXCEPT ![key] = NoNode]

\* group.create_dataset(key, ...) / group.array(name=key, ...) /
\* group[key] = data
GroupCreate(b, key, node) ==
    IF GroupContains(b, key) THEN Outcome("ValueError", b)
    ELSE Outcome("ok", [b EXCEPT ![key] = node])

\* variant of GroupMove: a node at dest is replaced by the node moved
GroupMove_overwrite(b, src, dest) ==
    IF ~GroupContains(b, src) THEN Outcome("KeyError", b)
    ELSE Outcome("ok", [b EXCEPT ![dest] = b[src], ![src] = NoNode])

\* group.move(src, dest)
GroupMove(b, src, dest) ==
    IF ~GroupContains(b, src) THEN Outcome("KeyError", b)
    ELSE IF GroupContains(b, dest) THEN Outcome("ValueError", b)
    ELSE Outcome("ok", [b EXCEPT ![dest] = b[src], ![src] = NoNode])

\* a node as created by the store, before the Attribute Type stamps it
RawNode(nid, data) == [id |-> nid, type_id |-> "", data |-> data, info |-> NoInfo]

(***************************************************************************)
(* Wire labels and their JSON form (attributes/operator/_wires.py).  A     *)
(* label carries its Python type and its content.  "np.int64" stands for   *)
(* an integral type other than int whose values hash like their int        *)
(* conversion, "OddIntegral" for an integral type whose values do not,     *)
(* "object" for a hashable object of a user-defined class and "tuple" for  *)
(* a tuple of JSON values.                                                  *)
(***************************************************************************)
Label(ty, val) == [ty |-> ty, val |-> val]

NoLabel == Label("", "")

_JSON_TYPES == {"int", "str", "float", "NoneType", "bool"}

\* isinstance(w, numbers.Integral)
Integral == {"int", "bool", "np.int64", "OddIntegral"}

\* int(w)
IntOf(w) == Label("int", w.val)

\* hash(int(w)) == hash(w)
HashAgrees(w) == w.ty # "OddIntegral"

\* json.dumps(w) of one label: the JSON token written
JsonDump(w) ==
    CASE w.ty = "int"      -> [j |-> "int", text |-> w.val]
      [] w.ty = "float"    -> [j |-> "real", text |-> w.val]
      [] w.ty = "str"      -> [j |-> "string", text |-> w.val]
      [] w.ty = "NoneType" -> [j |-> "null", text |-> ""]
      [] w.ty = "bool"     -> [j |-> IF w.val = "True" THEN "true"
                                     ELSE "false",
                               text |-> ""]
      [] w.ty = "tuple"    -> [j |-> "array", text |-> w.val]

\* json.loads(t) of one token: the Python value read
JsonLoad(t) ==
    CASE t.j = "int"    -> Label("int", t.text)
      [] t.j = "real"   -> Label("float", t.text)
      [] t.j = "string" -> Label("str", t.text)
      [] t.j = "null"   -> Label("NoneType", "")
      [] t.j = "true"   -> Label("bool", "True")
      [] t.j = "false"  -> Label("bool", "False")
      [] t.j = "array"  -> Label("list", t.text)

\* wires_to_json, the body of the loop for one label w: the labels appended
\* to jsonable_wires, or the error raised
ConvertWire(w) ==
    IF w.ty \notin _JSON_TYPES
    THEN IF w.ty \in Integral
         THEN IF ~HashAgrees(w)
              THEN [res |-> "UnserializableWireError", bad |-> w, out |-> <<>>]
              ELSE [res |-> "ok", bad |-> NoLabel, out |-> <<IntOf(w)>>]
         ELSE [res |-> "ok", bad |-> NoLabel, out |-> <<>>]
    ELSE [res |-> "ok", bad |-> NoLabel, out |-> <<w>>]

\* wires_to_json, the loop from label i on
RECURSIVE jsonable_wires(_, _)
jsonable_wires(wires, i) ==
    IF i > Len(wires) THEN [res |-> "ok", bad |-> NoLabel, out |-> <<>>]
    ELSE LET r == ConvertWire(wires[i])
         IN  IF r.res # "ok" THEN r
             ELSE LET rest == jsonable_wires(wires, i + 1)
                  IN  IF rest.res # "ok" THEN rest
                      ELSE [res |-> "ok", bad |-> NoLabel,
                            out |-> r.out \o rest.out]

\* wires_to_json(wires): the JSON list written, or the error raised
wires_to_json(wires) ==
    LET r == jsonable_wires(wires, 1)
    IN  [res |-> r.res, bad |-> r.bad,
         json |-> [i \in 1..Len(r.out) |-> JsonDump(r.out[i])]]

\* json.loads of a JSON list
JsonLoadList(json) == [i \in 1..Len(json) |-> JsonLoad(json[i])]

(***************************************************************************)
(* Operators (attributes/operator/operator.py).  An operator carries its   *)
(* class, its wire labels and its parameters; a Tensor carries its factors *)
(* (obs).  MyPauliX is a subclass of PauliX defined by a user.             *)
(***************************************************************************)
\* number of operators other than Tensor in a value that is written
MaxLeaves == 3

Leaf(cls, wires, data) ==
    [cls |-> cls, wires |-> wires, data |-> data, obs |-> <<>>]

\* Tensor(*obs)
TensorOp(obs) ==
    [cls |-> "Tensor", wires |-> <<>>, data |-> <<>>, obs |-> obs]

\* a class, by the namespace it is taken from and the name it is defined
\* under
PyClass(ns, name) == [ns |-> ns, name |-> name]

\* the names of the classes supported_ops() takes from the pennylane
\* namespace (qml.<name>)
QmlOpNames ==
    {"QubitCarry", "QubitSum", "QubitUnitary", "DiagonalQubitUnitary",
     "Hadamard", "PauliX", "PauliY", "PauliZ", "T", "S", "SX", "CNOT",
     "CZ", "CY", "CH", "SWAP", "ECR", "SISWAP", "CSWAP", "CCZ", "Toffoli",
     "WireCut", "Hermitian", "Projector", "ControlledPhaseShift",
     "CPhaseShift00", "CPhaseShift01", "CPhaseShift10", "CRX", "CRY",
     "CRZ", "CRot", "MultiRZ", "IsingXX", "IsingYY", "IsingZZ", "IsingXY",
     "PSWAP", "RX", "RY", "RZ", "PhaseShift", "Rot", "U1", "U2", "U3",
     "SingleExcitation", "SingleExcitationMinus", "SingleExcitationPlus",
     "DoubleExcitation", "DoubleExcitationMinus", "DoubleExcitationPlus",
     "OrbitalRotation", "SpecialUnitary", "BasisState", "QubitStateVector",
     "QubitDensityMatrix", "QutritUnitary", "TShift", "TClock", "TAdd",
     "TSWAP", "THermitian", "AmplitudeDamping",
     "GeneralizedAmplitudeDamping", "PhaseDamping", "DepolarizingChannel",
     "BitFlip", "ResetError", "PauliError", "PhaseFlip",
     "ThermalRelaxationError", "Rotation", "Squeezing", "Displacement",
     "Beamsplitter", "TwoModeSqueezing", "QuadraticPhase",
     "ControlledAddition", "ControlledPhase", "Kerr", "CrossKerr",
     "InterferometerUnitary", "CoherentState", "SqueezedState",
     "DisplacedSqueezedState", "ThermalState", "GaussianState",
     "FockState", "FockStateVector", "FockDensityMatrix", "CatState",
     "NumberOperator", "TensorN", "X", "P", "QuadOperator", "PolyXP",
     "FockStateProjector", "Identity"}

\* supported_ops() in full: Tensor and the classes of QmlOpNames
SupportedOpClasses ==
    {PyClass("pennylane.operation", "Tensor")}
    \cup {PyClass("pennylane", n) : n \in QmlOpNames}

\* the class an operator of the model is an instance of; MyPauliX is
\* defined by a user of the library
OpClass(cls) ==
    IF cls = "Tensor" THEN PyClass("pennylane.operation", "Tensor")
    ELSE IF cls = "MyPauliX" THEN PyClass("user", "MyPauliX")
    ELSE PyClass("pennylane", cls)

\* variant of OpName: the name of the namespace is taken
OpName_namespace(c) == c.ns

\* cls.__name__
OpName(c) == c.name

\* type(op).__name__
ClassName(cls) == OpName(OpClass(cls))

\* _supported_ops_dict() over supported_ops() in full
SupportedOpsDict ==
    [n \in {OpName(c) : c \in SupportedOpClasses} |->
        CHOOSE c \in SupportedOpClasses : OpName(c) = n]

\* _supported_ops_dict(): class name -> class, over the operators of the
\* model
_supported_ops_dict ==
    [n \in {ClassName(c) : c \in supported_ops} |->
        CHOOSE c \in supported_ops : ClassName(c) = n]

\* the operators other than Tensor that are written
OpLeaves ==
    {Leaf("PauliX", <<Label("int", "0")>>, <<>>),
     Leaf("RX", <<Label("str", "a")>>, <<"0.5">>),
     Leaf("CNOT", <<Label("np.int64", "1"), Label("str", "a")>>, <<>>),
     Leaf("MyPauliX", <<Label("int", "0")>>, <<>>),
     Leaf("PauliX", <<Label("OddIntegral", "2")>>, <<>>),
     Leaf("PauliX", <<Label("object", "o")>>, <<>>)}

\* operators on further kinds of wire labels, written on their own
OpProbes ==
    {Leaf("PauliX", <<Label("float", "1.5")>>, <<>>),
     Leaf("PauliX", <<Label("NoneType", "")>>, <<>>),
     Leaf("PauliX", <<Label("bool", "True")>>, <<>>),
     Leaf("CNOT", <<Label("object", "o"), Label("int", "0")>>, <<>>)}

\* the operators (OpElems), the lists of operators (OpLists) and the lists
\* of two operators or more (OpProperLists) that hold n operators other than
\* Tensor in all; a Tensor has two factors or more
RECURSIVE OpElems(_), OpLists(_), OpProperLists(_)
OpElems(n) ==
    IF n = 1 THEN OpLeaves ELSE {TensorOp(l) : l \in OpProperLists(n)}

OpProperLists(n) ==
    UNION {{<<e>> \o l : e \in OpElems(k), l \in OpLists(n - k)} :
           k \in 1..(n - 1)}

OpLists(n) == {<<e>> : e \in OpElems(n)} \cup OpProperLists(n)

\* the values written: one operator (DatasetOperator) or a list of operators
\* (DatasetOperatorList)
OpSubjects ==
    UNION {{[kind |-> "operator", ops |-> <<e>>] : e \in OpElems(n)}
           \cup {[kind |-> "operator_list", ops |-> l] : l \in OpLists(n)} :
           n \in 1..MaxLeaves}
    \cup {[kind |-> "operator", ops |-> <<e>>] : e \in OpProbes}

\* a group as _ops_to_hdf5 leaves it: the children op_0, op_1, ... and, once
\* the loop is through, the datasets op_wire_labels and op_class_names
EmptyOpGroup ==
    [complete |-> FALSE, children |-> <<>>, op_wire_labels |-> <<>>,
     op_class_names |-> <<>>]

\* variant of OpDataset: the parameters are written as they are, an empty
\* list included
OpDataset_noSentinel(data) ==
    [kind |-> "array", data |-> data, group |-> EmptyOpGroup]

\* bind[op_key] = op.data if len(op.data) else h5py.Empty("f")
OpDataset(data) ==
    [kind |-> IF Len(data) > 0 THEN "array" ELSE "empty", data |-> data,
     group |-> EmptyOpGroup]

\* the child a nested _ops_to_hdf5 call creates
OpSubgroup(g) == [kind |-> "group", data |-> <<>>, group |-> g]

\* the entry of op_wire_labels: a JSON list, or the JSON text null
JsonList(json) == [j |-> "array", items |-> json]
JsonNull == [j |-> "null", items |-> <<>>]

\* variant of OpSupported: an instance of a subclass of a supported class is
\* accepted
OpSupported_isinstance(cls) ==
    cls \in supported_ops \/ (cls = "MyPauliX" /\ "PauliX" \in supported_ops)

\* type(op) in self.supported_ops()
OpSupported(cls) == cls \in supported_ops

\* _ops_to_hdf5: the loop from operator i on, g being the group written so
\* far; the outcome is the error raised, if any, and the group left behind
RECURSIVE _ops_to_hdf5(_, _, _)
_ops_to_hdf5(value, i, g) ==
    IF i > Len(value)
    THEN [res |-> "ok", err |-> "", bad |-> NoLabel,
          group |-> [g EXCEPT !.complete = TRUE]]
    ELSE LET op == value[i]
         IN  IF ~OpSupported(op.cls)
             THEN [res |-> "TypeError", err |-> ClassName(op.cls),
                   bad |-> NoLabel, group |-> g]
             ELSE IF op.cls = "Tensor"
             THEN LET sub == _ops_to_hdf5(op.obs, 1, EmptyOpGroup)
                      g1 == [g EXCEPT
                               !.children = Append(@, OpSubgroup(sub.group))]
                  IN  IF sub.res # "ok"
                      THEN [sub EXCEPT !.group = g1]
                      ELSE _ops_to_hdf5(value, i + 1,
                               [g1 EXCEPT
                                  !.op_wire_labels = Append(@, JsonNull),
                                  !.op_class_names =
                                      Append(@, ClassName(op.cls))])
             ELSE LET g1 == [g EXCEPT
                               !.children = Append(@, OpDataset(op.data))]
                      w == wires_to_json(op.wires)
                  IN  IF w.res # "ok"
                      THEN [res |-> w.res, err |-> "", bad |-> w.bad,
                            group |-> g1]
                      ELSE _ops_to_hdf5(value, i + 1,
                               [g1 EXCEPT
                                  !.op_wire_labels =
                                      Append(@, JsonList(w.json)),
                                  !.op_class_names =
                                      Append(@, ClassName(op.cls))])

\* _hdf5_to_ops: the operators read from the group g, from entry i on
RECURSIVE _hdf5_to_ops(_, _)
_hdf5_to_ops(g, i) ==
    IF i > Len(g.op_class_names) THEN <<>>
    ELSE LET op_cls == _supported_ops_dict[g.op_class_names[i]]
             op == IF op_cls = "Tensor"
                   THEN TensorOp(_hdf5_to_ops(g.children[i].group, 1))
                   ELSE Leaf(op_cls,
                             JsonLoadList(g.op_wire_labels[i].items),
                             IF g.children[i].kind = "array"
                             THEN g.children[i].data ELSE <<>>)
         IN  <<op>> \o _hdf5_to_ops(g, i + 1)

\* DatasetOperator.value_to_hdf5 / DatasetOperatorList.value_to_hdf5
Operator_value_to_hdf5(v) == _ops_to_hdf5(v.ops, 1, EmptyOpGroup)

\* DatasetOperator.hdf5_to_value, which returns the first operator read, and
\* DatasetOperatorList.hdf5_to_value
Operator_hdf5_to_value(kind, g) ==
    [res |-> "ok",
     ops |-> IF kind = "operator" THEN <<_hdf5_to_ops(g, 1)[1]>>
             ELSE _hdf5_to_ops(g, 1)]

(***************************************************************************)
(* Attribute Types: value -> store.                                         *)
(***************************************************************************)
\* DatasetString.value_to_zarr: an existing child is deleted first
DatasetString_value_to_zarr(b, key, value, nid) ==
    LET b1 == IF GroupContains(b, key) THEN GroupDelete(b, key) ELSE b
    IN  GroupCreate(b1, key, RawNode(nid, value.data))

\* DatasetNone.value_to_hdf5: an empty array, whatever the value
DatasetNone_value_to_hdf5(b, key, value, nid) ==
    GroupCreate(b, key, RawNode(nid, ""))

\* the operators assigned through the mapper, by their repr
OperatorOf(d) ==
    CASE d = "PauliX(0)"   -> Leaf("PauliX", <<Label("int", "0")>>, <<>>)
      [] d = "MyPauliX(0)" -> Leaf("MyPauliX", <<Label("int", "0")>>, <<>>)
      [] d = "PauliX(Odd(2))" ->
             Leaf("PauliX", <<Label("OddIntegral", "2")>>, <<>>)
      [] d = "PauliX(0) @ MyPauliX(0)" ->
             TensorOp(<<Leaf("PauliX", <<Label("int", "0")>>, <<>>),
                        Leaf("MyPauliX", <<Label("int", "0")>>, <<>>)>>)

\* the content of a group node: the operator of a group written to the end,
\* the number of children of a group left unfinished
GroupData(value, r) ==
    IF r.res = "ok" THEN value.data
    ELSE IF Len(r.group.children) = 0 THEN "unfinished group, no child"
    ELSE "unfinished group, op_0"

\* DatasetOperator.value_to_hdf5: bind_parent.create_group(key) comes first
\* and is refused for a name that is taken; the group created stays in the
\* parent when the loop over the operators raises
DatasetOperator_value_to_hdf5(b, key, value, nid) ==
    IF GroupContains(b, key) THEN Outcome("ValueError", b)
    ELSE LET r == Operator_value_to_hdf5([kind |-> "operator",
                                          ops |-> <<OperatorOf(value.data)>>])
         IN  Outcome(r.res,
                     [b EXCEPT ![key] = RawNode(nid, GroupData(value, r))])

\* DatasetArray.value_to_hdf5: None has no array representation
DatasetArray_value_to_hdf5(b, key, value, nid) ==
    IF value.cls = "NoneType" THEN Outcome("TypeError", b)
    ELSE GroupCreate(b, key, RawNode(nid, value.data))

\* the Attribute Types the mapper specification writes with
WritableTypes == {"DatasetString", "DatasetNone", "DatasetArray"}

value_to_store(cls, b, key, value, nid) ==
    CASE cls = "DatasetString" -> DatasetString_value_to_zarr(b, key, value, nid)
      [] cls = "DatasetNone"   -> DatasetNone_value_to_hdf5(b, key, value, nid)
      [] cls = "DatasetArray"  -> DatasetArray_value_to_hdf5(b, key, value, nid)
      [] cls = "DatasetOperator" ->
             DatasetOperator_value_to_hdf5(b, key, value, nid)

\* variant of AttributeTypeInit: the node is left without type_id
AttributeTypeInit_noStamp(cls, b, key, value, info, nid) ==
    LET r == value_to_store(cls, b, key, value, nid)
    IN  IF r.res # "ok" THEN r
        ELSE Outcome("ok", [r.bind EXCEPT ![key].info = info])

\* cls(value, info, parent_and_key=(b, key)): the node is created by the
\* conversion of cls and then carries the type_id of cls and the info
AttributeTypeInit(cls, b, key, value, info, nid) ==
    LET r == value_to_store(cls, b, key, value, nid)
    IN  IF r.res # "ok" THEN r
        ELSE Outcome("ok", [r.bind EXCEPT ![key].type_id = type_id(cls),
                                           ![key].info = info])

\* zarr.copy(source, dest, key): the node of source is copied under key
copy(b, key, source, nid) ==
    GroupCreate(b, key, [id |-> nid, type_id |-> type_id(source.cls),
                         data |-> source.data, info |-> NoInfo])

\* value._set_parent(b, key), then value.info.load(info) if info is given
SetParent(b, key, value, info, nid) ==
    LET r == copy(b, key, value, nid)
    IN  IF r.res # "ok" \/ info = NoInfo THEN r
        ELSE Outcome("ok", [r.bind EXCEPT ![key].info = info])

(***************************************************************************)
(* AttributeTypeMapper.                                                     *)
(***************************************************************************)
\* variant of CacheLookup: the cache is never hit
CacheLookup_miss(c, key) == NoWrapper

\* __getitem__: the cached wrapper of key, NoWrapper if key is not cached
CacheLookup(c, key) == c[key]

\* variant of GetResolve: a node of unknown type is read as an array
GetResolve_fallback(reg, zobj) ==
    IF get_attribute_type(reg, zobj.type_id) = "KeyError" THEN "DatasetArray"
    ELSE get_attribute_type(reg, zobj.type_id)

\* __getitem__: attr_type = get_attribute_type(zobj)
GetResolve(reg, zobj) == get_attribute_type(reg, zobj.type_id)

\* attr_type(bind=zobj): the instance is bound to the node; the node is not
\* converted to a value (conv counts the conversions run)
BindInit(cls, zobj, wid) ==
    [attr |-> [wid |-> wid, cls |-> cls, node |-> zobj.id], conv |-> 0]

\* __getitem__: the outcome of a lookup of key in the state (b, c, reg), where
\* wid is the identity a new wrapper would get
GetOutcome(b, c, reg, key, wid) ==
    IF CacheLookup(c, key) # NoWrapper
    THEN [res |-> "ok", ret |-> CacheLookup(c, key), hit |-> TRUE, conv |-> 0]
    ELSE IF ~GroupContains(b, key)
    THEN [res |-> "KeyError", ret |-> NoWrapper, hit |-> FALSE, conv |-> 0]
    ELSE IF GetResolve(reg, b[key]) = "KeyError"
    THEN [res |-> "KeyError", ret |-> NoWrapper, hit |-> FALSE, conv |-> 0]
    ELSE [res |-> "ok",
          ret |-> BindInit(GetResolve(reg, b[key]), b[key], wid).attr,
          hit |-> FALSE,
          conv |-> BindInit(GetResolve(reg, b[key]), b[key], wid).conv]

\* variant of CacheInsert: the new wrapper is cached under every key
CacheInsert_all(c, key, attr) == [k \in DOMAIN c |-> attr]

\* __getitem__: self._cache[key] = attr
CacheInsert(c, key, attr) == [c EXCEPT ![key] = attr]

\* variant of SetEvict: the cache entry of key survives the set
SetEvict_keep(c, key) == c

\* set_item: self._cache.pop(key, None)
SetEvict(c, key) == [c EXCEPT ![key] = NoWrapper]

\* variant of MoveEvict: the entry of dest is dropped instead of that of src
MoveEvict_dest(c, src, dest) == [c EXCEPT ![dest] = NoWrapper]

\* move: self._cache.pop(src, None)
MoveEvict(c, src, dest) == [c EXCEPT ![src] = NoWrapper]

\* variant of DelEvict: the cache entry of key survives the delete
DelEvict_keep(c, key) == c

\* __delitem__: self._cache.pop(key, None)
DelEvict(c, key) == [c EXCEPT ![key] = NoWrapper]

\* variant of SetAttrType: a value that no type consumes is written as array
SetAttrType_fallback(cons, value, req) ==
    IF req # NoReq THEN req
    ELSE IF match_obj_type(cons, value) = "TypeError" THEN "DatasetArray"
    ELSE match_obj_type(cons, value)

\* set_item: the type a plain value is serialized as
SetAttrType(cons, value, req) ==
    IF req # NoReq THEN req ELSE match_obj_type(cons, value)

\* set_item: the arguments of the TypeError raised for an Attribute Type
\* instance that is not of the required type: (key, require_type, type(value))
SetErrorArgs(key, value, req) ==
    IF value.kind = "attr" /\ req # NoReq /\ value.cls # req
    THEN <<key, req, value.cls>>
    ELSE <<>>

\* variant of SetOutcome: an Attribute Type instance is attached whatever
\* type is required
SetOutcome_anyInstance(b, cons, key, value, info, req, nid) ==
    IF value.kind = "attr"
    THEN SetParent(b, key, value, info, nid)
    ELSE IF SetAttrType(cons, value, req) = "TypeError"
         THEN Outcome("TypeError", b)
         ELSE AttributeTypeInit(SetAttrType(cons, value, req), b, key, value,
                                info, nid)

\* set_item: the outcome on the group
SetOutcome(b, cons, key, value, info, req, nid) ==
    IF value.kind = "attr"
    THEN IF req # NoReq /\ value.cls # req THEN Outcome("TypeError", b)
         ELSE SetParent(b, key, value, info, nid)
    ELSE IF SetAttrType(cons, value, req) = "TypeError"
         THEN Outcome("TypeError", b)
         ELSE AttributeTypeInit(SetAttrType(cons, value, req), b, key, value,
                                info, nid)

\* variant of Contains: only the cache is asked
Contains_cacheOnly(b, c, key) == c[key] # NoWrapper

\* __contains__
Contains(b, c, key) == c[key] # NoWrapper \/ GroupContains(b, key)

\* __iter__: the keys iter(self.bind) yields
Iter(b) == {k \in DOMAIN b : GroupContains(b, k)}

\* __len__: len(self.bind)
GroupLen(b) == Cardinality(Iter(b))

\* variant of MappingProxy: the view holds a copy of the group and of the
\* cache as they are when it is taken
MappingProxy_snapshot(b, c) ==
    [taken |-> TRUE, ref |-> FALSE, bind |-> b, cache |-> c]

\* view: MappingProxyType(self), a proxy that holds a reference to the
\* mapper and no copy of its group or cache
MappingProxy(b, c) ==
    [taken |-> TRUE, ref |-> TRUE, bind |-> EmptyGroup, cache |-> EmptyCache]

\* the group and the cache a call through the view v reads
ViewGroup(v, b) == IF v.ref THEN b ELSE v.bind
ViewCache(v, c) == IF v.ref THEN c ELSE v.cache

\* the plain values and the Attribute Type instances assigned through the
\* mapper, the infos attached and the types required (DatasetArray is the
\* type DatasetOperator.value_to_zarr requires for the operator data)
SetValues ==
    {Obj("str", "x"), Obj("NoneType", "None"), Obj("float", "1.5"),
     AttrObj("DatasetString", "y")}
Infos == {NoInfo, "doc"}
RequireTypes == {NoReq, "DatasetArray"}

\* the groups a mapper is constructed over: an empty one, one holding a
\* string attribute, one holding a node without type_id and one holding a
\* node whose type_id no registered class declares
InitialGroups ==
    {EmptyGroup,
     [EmptyGroup EXCEPT !["a"] = [id |-> 0, type_id |-> "string",
                                  data |-> "x", info |-> NoInfo]],
     [EmptyGroup EXCEPT !["a"] = [id |-> 0, type_id |-> "",
                                  data |-> "raw", info |-> NoInfo]],
     [EmptyGroup EXCEPT !["a"] = [id |-> 0, type_id |-> "user_string",
                                  data |-> "x", info |-> NoInfo]]}

InitMapper ==
    /\ registry = RegistryAfter(ImportOrder, Len(ImportOrder))
    /\ type_consumer_registry = ConsumersAfter(ImportOrder, Len(ImportOrder))
    /\ regOrder = ImportOrder
    /\ lastReg = [cls |-> "", res |-> "ok"]
    /\ lastMatch = [arg |-> TypeObj("object"), res |-> "TypeError", n |-> 0]
    /\ bind \in InitialGroups
    /\ cache = EmptyCache
    /\ nextNode = 1
    /\ nextWrapper = 0
    /\ last = Idle
    /\ handed = EmptyCache
    /\ resolutions = [k \in Keys |-> 0]
    /\ view = NoView
    /\ dataset = NoDataset
    /\ classes = NoClasses
    /\ subject = NoConversion
    /\ written = NoConversion
    /\ readback = NoConversion

\* AttributeTypeMapper.__getitem__(key)
getitem(key) ==
    LET r == GetOutcome(bind, cache, registry, key, nextWrapper)
        created == r.res = "ok" /\ ~r.hit
    IN  /\ created => nextWrapper < MaxWrappers
        /\ cache' = IF created THEN CacheInsert(cache, key, r.ret) ELSE cache
        /\ nextWrapper' = IF created THEN nextWrapper + 1 ELSE nextWrapper
        /\ last' = [Call("get", key, "", NoValue, NoReq, r.res, r.ret,
                         cache[key], -1) EXCEPT !.conv = r.conv]
        /\ handed' = IF r.res = "ok" THEN [handed EXCEPT ![key] = r.ret]
                     ELSE handed
        /\ resolutions' = IF created
                          THEN [resolutions EXCEPT ![key] = @ + 1]
                          ELSE resolutions
        /\ UNCHANGED <<bind, nextNode, view>>
        /\ UNCHANGED <<regVars, convVars, auxVars>>

\* AttributeTypeMapper.set_item(key, value, info, require_type)
set_item(key, value, info, req) ==
    LET r == SetOutcome(bind, type_consumer_registry, key, value, info, req,
                        nextNode)
        ok == r.res = "ok"
        created == ok \/ r.bind # bind
    IN  /\ created => nextNode < MaxNodes
        /\ bind' = r.bind
        /\ cache' = IF ok THEN SetEvict(cache, key) ELSE cache
        /\ nextNode' = IF created THEN nextNode + 1 ELSE nextNode
        /\ last' = [Call("set", key, "", value, req, r.res, NoWrapper,
                         cache[key], IF ok THEN nextNode ELSE -1)
                     EXCEPT !.args = IF r.res = "TypeError"
                                     THEN SetErrorArgs(key, value, req)
                                     ELSE <<>>]
        /\ handed' = IF ok THEN [handed EXCEPT ![key] = NoWrapper] ELSE handed
        /\ resolutions' = IF ok THEN [resolutions EXCEPT ![key] = 0]
                          ELSE resolutions
        /\ UNCHANGED <<nextWrapper, view>>
        /\ UNCHANGED <<regVars, convVars, auxVars>>

\* AttributeTypeMapper.move(src, dest)
move(src, dest) ==
    LET r == GroupMove(bind, src, dest)
        ok == r.res = "ok"
    IN  /\ bind' = r.bind
        /\ cache' = IF ok THEN MoveEvict(cache, src, dest) ELSE cache
        /\ last' = Call("move", src, dest, NoValue, NoReq, r.res, NoWrapper,
                        cache[src], -1)
        /\ handed' = IF ok THEN [handed EXCEPT ![src] = NoWrapper,
                                               ![dest] = NoWrapper]
                     ELSE handed
        /\ resolutions' = IF ok THEN [resolutions EXCEPT ![src] = 0]
                          ELSE resolutions
        /\ UNCHANGED <<nextNode, nextWrapper, view>>
        /\ UNCHANGED <<regVars, convVars, auxVars>>

\* AttributeTypeMapper.__delitem__(key): the cache entry goes first, then the
\* node; deleting a missing node raises after the eviction
delitem(key) ==
    LET ok == GroupContains(bind, key)
    IN  /\ cache' = DelEvict(cache, key)
        /\ bind' = IF ok THEN GroupDelete(bind, key) ELSE bind
        /\ last' = Call("delete", key, "", NoValue, NoReq,
                        IF ok THEN "ok" ELSE "KeyError", NoWrapper,
                        cache[key], -1)
        /\ handed' = [handed EXCEPT ![key] = NoWrapper]
        /\ resolutions' = [resolutions EXCEPT ![key] = 0]
        /\ UNCHANGED <<nextNode, nextWrapper, view>>
        /\ UNCHANGED <<regVars, convVars, auxVars>>

\* AttributeTypeMapper.__contains__(key)
contains(key) ==
    /\ last' = Call("contains", key, "", NoValue, NoReq,
                    IF Contains(bind, cache, key) THEN "True" ELSE "False",
                    NoWrapper, cache[key], -1)
    /\ UNCHANGED <<bind, cache, nextNode, nextWrapper, handed, resolutions,
                   view>>
    /\ UNCHANGED <<regVars, convVars, auxVars>>

\* AttributeTypeMapper.__iter__()
iter ==
    /\ last' = [Call("iter", "", "", NoValue, NoReq, "ok", NoWrapper,
                     NoWrapper, -1) EXCEPT !.keys = Iter(bind)]
    /\ UNCHANGED <<bind, cache, nextNode, nextWrapper, handed, resolutions,
                   view>>
    /\ UNCHANGED <<regVars, convVars, auxVars>>

\* AttributeTypeMapper.__len__()
len ==
    /\ last' = [Call("len", "", "", NoValue, NoReq, "ok", NoWrapper,
                     NoWrapper, -1) EXCEPT !.len = GroupLen(bind)]
    /\ UNCHANGED <<bind, cache, nextNode, nextWrapper, handed, resolutions,
                   view>>
    /\ UNCHANGED <<regVars, convVars, auxVars>>

NextMapper ==
    \/ \E key \in Keys : getitem(key)
    \/ \E key \in Keys : \E value \in SetValues : \E info \in Infos :
           \E req \in RequireTypes : set_item(key, value, info, req)
    \/ \E src \in Keys : \E dest \in Keys : move(src, dest)
    \/ \E key \in Keys : delitem(key)
    \/ \E key \in Keys : contains(key)
    \/ iter
    \/ len

SpecMapper == InitMapper /\ [][NextMapper]_vars

(***************************************************************************)
(* The view of a mapper.  A call through the view is a call of the         *)
(* mappingproxy returned by view(): __getitem__, __contains__, __iter__    *)
(* and __len__ are passed on to the mapper, item assignment and deletion   *)
(* are not supported by a mappingproxy and raise TypeError.                *)
(***************************************************************************)
\* AttributeTypeMapper.view()
take_view ==
    /\ view' = MappingProxy(bind, cache)
    /\ last' = Call("view", "", "", NoValue, NoReq, "ok", NoWrapper,
                    NoWrapper, -1)
    /\ UNCHANGED <<bind, cache, nextNode, nextWrapper, handed, resolutions>>
    /\ UNCHANGED <<regVars, convVars, auxVars>>

\* view()[key]
view_getitem(key) ==
    LET r == GetOutcome(ViewGroup(view, bind), ViewCache(view, cache),
                        registry, key, nextWrapper)
        created == r.res = "ok" /\ ~r.hit
    IN  /\ view.taken
        /\ created => nextWrapper < MaxWrappers
        /\ cache' = IF created THEN CacheInsert(cache, key, r.ret) ELSE cache
        /\ nextWrapper' = IF created THEN nextWrapper + 1 ELSE nextWrapper
        /\ last' = [Call("view.get", key, "", NoValue, NoReq, r.res, r.ret,
                         cache[key], -1) EXCEPT !.conv = r.conv]
        /\ handed' = IF r.res = "ok" THEN [handed EXCEPT ![key] = r.ret]
                     ELSE handed
        /\ resolutions' = IF created
                          THEN [resolutions EXCEPT ![key] = @ + 1]
                          ELSE resolutions
        /\ UNCHANGED <<bind, nextNode, view>>
        /\ UNCHANGED <<regVars, convVars, auxVars>>

\* view()[key] = value
view_setitem(key, value) ==
    /\ view.taken
    /\ last' = Call("view.set", key, "", value, NoReq, "TypeError", NoWrapper,
                    cache[key], -1)
    /\ UNCHANGED <<bind, cache, nextNode, nextWrapper, handed, resolutions,
                   view>>
    /\ UNCHANGED <<regVars, convVars, auxVars>>

\* del view()[key]
view_delitem(key) ==
    /\ view.taken
    /\ last' = Call("view.delete", key, "", NoValue, NoReq, "TypeError",
                    NoWrapper, cache[key], -1)
    /\ UNCHANGED <<bind, cache, nextNode, nextWrapper, handed, resolutions,
                   view>>
    /\ UNCHANGED <<regVars, convVars, auxVars>>

\* key in view()
view_contains(key) ==
    /\ view.taken
    /\ last' = Call("view.contains", key, "", NoValue, NoReq,
                    IF Contains(ViewGroup(view, bind), ViewCache(view, cache),
                                key)
                    THEN "True" ELSE "False",
                    NoWrapper, cache[key], -1)
    /\ UNCHANGED <<bind, cache, nextNode, nextWrapper, handed, resolutions,
                   view>>
    /\ UNCHANGED <<regVars, convVars, auxVars>>

\* iter(view())
view_iter ==
    /\ view.taken
    /\ last' = [Call("view.iter", "", "", NoValue, NoReq, "ok", NoWrapper,
                     NoWrapper, -1)
                EXCEPT !.keys = Iter(ViewGroup(view, bind))]
    /\ UNCHANGED <<bind, cache, nextNode, nextWrapper, handed, resolutions,
                   view>>
    /\ UNCHANGED <<regVars, convVars, auxVars>>

\* len(view())
view_len ==
    /\ view.taken
    /\ last' = [Call("view.len", "", "", NoValue, NoReq, "ok", NoWrapper,
                     NoWrapper, -1)
                EXCEPT !.len = GroupLen(ViewGroup(view, bind))]
    /\ UNCHANGED <<bind, cache, nextNode, nextWrapper, handed, resolutions,
                   view>>
    /\ UNCHANGED <<regVars, convVars, auxVars>>

\* the values assigned while a view is in use
ViewSetValues == {Obj("str", "x"), Obj("NoneType", "None")}

InitView == InitMapper

NextView ==
    \/ \E key \in Keys : getitem(key)
    \/ \E key \in Keys : \E value \in ViewSetValues :
           set_item(key, value, NoInfo, NoReq)
    \/ \E src \in Keys : \E dest \in Keys : move(src, dest)
    \/ \E key \in Keys : delitem(key)
    \/ \E key \in Keys : contains(key)
    \/ iter
    \/ len
    \/ take_view
    \/ \E key \in Keys : view_getitem(key)
    \/ \E key \in Keys : \E value \in ViewSetValues : view_setitem(key, value)
    \/ \E key \in Keys : view_delitem(key)
    \/ \E key \in Keys : view_contains(key)
    \/ view_iter
    \/ view_len

SpecView == InitView /\ [][NextView]_vars

NotWritten == [res |-> "none", err |-> "", bad |-> NoLabel,
               group |-> EmptyOpGroup]
NotRead == [res |-> "none", ops |-> <<>>]

InitOperator ==
    /\ registry = EmptyRegistry
    /\ type_consumer_registry = EmptyConsumers
    /\ regOrder = <<>>
    /\ lastReg = [cls |-> "", res |-> "ok"]
    /\ lastMatch = [arg |-> TypeObj("object"), res |-> "TypeError", n |-> 0]
    /\ bind = EmptyGroup
    /\ cache = EmptyCache
    /\ nextNode = 0
    /\ nextWrapper = 0
    /\ last = Idle
    /\ handed = EmptyCache
    /\ resolutions = [k \in Keys |-> 0]
    /\ view = NoView
    /\ dataset = NoDataset
    /\ classes = NoClasses
    /\ subject \in OpSubjects
    /\ written = NotWritten
    /\ readback = NotRead

\* the operator, or the list of operators, is written to a new group
op_write ==
    /\ written = NotWritten
    /\ written' = Operator_value_to_hdf5(subject)
    /\ UNCHANGED <<subject, readback>>
    /\ UNCHANGED <<regVars, mapVars, auxVars>>

\* the group written is read
op_read ==
    /\ written.res = "ok"
    /\ readback = NotRead
    /\ readback' = Operator_hdf5_to_value(subject.kind, written.group)
    /\ UNCHANGED <<subject, written>>
    /\ UNCHANGED <<regVars, mapVars, auxVars>>

NextOperator == op_write \/ op_read

SpecOperator == InitOperator /\ [][NextOperator]_vars

(***************************************************************************)
(* Hamiltonians of Pauli words (attributes/qchem.py).  A Pauli word is a   *)
(* sequence of factors, each a Pauli letter on a wire; Identity(w) is the  *)
(* word whose one factor is the letter I on w.  pauli_word_to_string,      *)
(* string_to_pauli_word and Hamiltonian are not part of the source tree at *)
(* hand; they are modelled from the design text (sections 4.6 and 5) and   *)
(* from what the dataset tests show of them.                                *)
(***************************************************************************)
\* number of terms of a Hamiltonian that is written
MaxTerms == 2

Factor(w, p) == [wire |-> w, pauli |-> p]

\* the wire labels of the Hamiltonians written, in sorting order
HamLabels ==
    <<Label("str", "a"), Label("str", "b"), Label("str", "c"),
      Label("tuple", "(0, 1)")>>

\* position of the label w in the sorting order
LabelRank(w) == CHOOSE i \in 1..Len(HamLabels) : HamLabels[i] = w

\* the set S of labels as a sorted sequence
RECURSIVE SortedLabels(_)
SortedLabels(S) ==
    IF S = {} THEN <<>>
    ELSE LET m == CHOOSE w \in S : \A v \in S : LabelRank(w) <= LabelRank(v)
         IN  <<m>> \o SortedLabels(S \ {m})

\* Hamiltonian(coeffs, ops): the wires are those of the terms, sorted
Hamiltonian(coeffs, ops) ==
    [coeffs |-> coeffs, ops |-> ops,
     wires |-> SortedLabels(UNION {{ops[i][j].wire : j \in 1..Len(ops[i])} :
                                   i \in 1..Len(ops)})]

\* the Pauli words that are terms of the Hamiltonians written
HamWords ==
    {<<Factor(Label("str", "a"), "Z")>>,
     <<Factor(Label("str", "a"), "X"), Factor(Label("str", "b"), "Y")>>,
     <<Factor(Label("str", "c"), "X"), Factor(Label("str", "a"), "Y")>>,
     <<Factor(Label("str", "b"), "Z"), Factor(Label("str", "c"), "Z")>>,
     <<Factor(Label("str", "a"), "I")>>,
     <<Factor(Label("str", "b"), "I")>>}

\* a Pauli word on a wire labelled by a tuple
TupleWord == <<Factor(Label("tuple", "(0, 1)"), "Z")>>

\* the coefficient of term i
CoeffAt(i) == i

\* the sequences of one to n elements of S
RECURSIVE SeqsUpTo(_, _)
SeqsUpTo(S, n) ==
    IF n = 0 THEN {}
    ELSE {<<e>> : e \in S}
         \cup {l \o <<e>> : l \in SeqsUpTo(S, n - 1), e \in S}

\* the Hamiltonians written
HamSubjects ==
    {Hamiltonian([i \in 1..Len(ops) |-> CoeffAt(i)], ops) :
        ops \in SeqsUpTo(HamWords, MaxTerms) \cup {<<TupleWord>>}}

\* {w: i for i, w in enumerate(wires)}: the index of wire w
WireIndex(wires, w) == CHOOSE i \in 1..Len(wires) : wires[i] = w

\* pauli_word_to_string(op, wire_map): one letter for each wire of the map,
\* I for the wires the word does not act on
pauli_word_to_string(op, wires) ==
    [i \in 1..Len(wires) |->
        IF \E j \in 1..Len(op) : op[j].wire = wires[i]
        THEN op[CHOOSE j \in 1..Len(op) : op[j].wire = wires[i]].pauli
        ELSE "I"]

\* the factors of the string str from position i on, identities left out
RECURSIVE StringFactors(_, _, _)
StringFactors(str, wires, i) ==
    IF i > Len(str) THEN <<>>
    ELSE (IF str[i] = "I" THEN <<>> ELSE <<Factor(wires[i], str[i])>>)
         \o StringFactors(str, wires, i + 1)

\* string_to_pauli_word(str, wire_map): the identity word is read as the
\* identity on the first wire of the map
string_to_pauli_word(str, wires) ==
    IF \A i \in 1..Len(str) : str[i] = "I"
    THEN <<Factor(wires[1], "I")>>
    ELSE StringFactors(str, wires, 1)

\* the wires a Pauli word acts on, in the order of the sequence wires
RECURSIVE WordWires(_, _)
WordWires(op, wires) ==
    IF Len(wires) = 0 THEN <<>>
    ELSE (IF \E j \in 1..Len(op) : op[j].wire = Head(wires)
          THEN <<Head(wires)>> ELSE <<>>) \o WordWires(op, Tail(wires))

\* variant of QChemHamiltonian_value_to_hdf5: each word is written over the
\* wires it acts on
QChemHamiltonian_value_to_hdf5_wordWires(value) ==
    [res |-> "ok",
     group |-> [ops |-> [i \in 1..Len(value.ops) |->
                            pauli_word_to_string(
                                value.ops[i],
                                WordWires(value.ops[i], value.wires))],
                coeffs |-> value.coeffs,
                wires |-> [i \in 1..Len(value.wires) |->
                              JsonDump(value.wires[i])]]]

\* QChemHamiltonian.value_to_hdf5: the datasets ops, coeffs and wires
QChemHamiltonian_value_to_hdf5(value) ==
    [res |-> "ok",
     group |-> [ops |-> [i \in 1..Len(value.ops) |->
                            pauli_word_to_string(value.ops[i], value.wires)],
                coeffs |-> value.coeffs,
                wires |-> [i \in 1..Len(value.wires) |->
                              JsonDump(value.wires[i])]]]

\* a value that can be the key of a dict
Hashable(w) == w.ty # "list"

\* QChemHamiltonian.hdf5_to_value: the wire map is a dict keyed by the wire
\* labels read
QChemHamiltonian_hdf5_to_value(g) ==
    LET wires == JsonLoadList(g.wires)
    IN  IF \E i \in 1..Len(wires) : ~Hashable(wires[i])
        THEN [res |-> "TypeError", ham |-> Hamiltonian(<<>>, <<>>)]
        ELSE [res |-> "ok",
              ham |-> Hamiltonian(g.coeffs,
                                  [i \in 1..Len(g.ops) |->
                                      string_to_pauli_word(g.ops[i], wires)])]

HamNotWritten ==
    [res |-> "none", group |-> [ops |-> <<>>, coeffs |-> <<>>, wires |-> <<>>]]
HamNotRead == [res |-> "none", ham |-> Hamiltonian(<<>>, <<>>)]

InitHamiltonian ==
    /\ registry = EmptyRegistry
    /\ type_consumer_registry = EmptyConsumers
    /\ regOrder = <<>>
    /\ lastReg = [cls |-> "", res |-> "ok"]
    /\ lastMatch = [arg |-> TypeObj("object"), res |-> "TypeError", n |-> 0]
    /\ bind = EmptyGroup
    /\ cache = EmptyCache
    /\ nextNode = 0
    /\ nextWrapper = 0
    /\ last = Idle
    /\ handed = EmptyCache
    /\ resolutions = [k \in Keys |-> 0]
    /\ view = NoView
    /\ dataset = NoDataset
    /\ classes = NoClasses
    /\ subject \in HamSubjects
    /\ written = HamNotWritten
    /\ readback = HamNotRead

\* the Hamiltonian is written to a new group
ham_write ==
    /\ written = HamNotWritten
    /\ written' = QChemHamiltonian_value_to_hdf5(subject)
    /\ UNCHANGED <<subject, readback>>
    /\ UNCHANGED <<regVars, mapVars, auxVars>>

\* the group written is read
ham_read ==
    /\ written.res = "ok"
    /\ readback = HamNotRead
    /\ readback' = QChemHamiltonian_hdf5_to_value(written.group)
    /\ UNCHANGED <<subject, written>>
    /\ UNCHANGED <<regVars, mapVars, auxVars>>

NextHamiltonian == ham_write \/ ham_read

SpecHamiltonian == InitHamiltonian /\ [][NextHamiltonian]_vars

(***************************************************************************)
(* Composite containers: DatasetDict and DatasetList, with DatasetScalar   *)
(* for their numeric elements.  These classes are not part of the source   *)
(* tree at hand; they are modelled from the design text (sections 3 and    *)
(* 4.5): the elements are written one by one through the mapper of the     *)
(* container's group and read in store order, which is the order in which  *)
(* the children were created.                                               *)
(***************************************************************************)
\* number of elements of a container that is written
MaxItems == 3

\* a value with elements: a list (the keys of its items are not used) or a
\* dict; a value without elements has no items
CObj(c, d, items) == [kind |-> "obj", cls |-> c, data |-> d, items |-> items]
Item(key, val) == [key |-> key, val |-> val]

\* the Attribute Types of the elements and the dispatch and type_id tables
\* once they are registered
ContainerTypes ==
    {"DatasetScalar", "DatasetString", "DatasetNone", "DatasetList",
     "DatasetDict"}
ContainerConsumers ==
    [t \in UNION {consumes_types(c) : c \in ContainerTypes} |->
        CHOOSE c \in ContainerTypes : t \in consumes_types(c)]
ContainerRegistry ==
    [tid \in {type_id(c) : c \in ContainerTypes} |->
        CHOOSE c \in ContainerTypes : type_id(c) = tid]

\* str(index), the key of a list element
IndexKeys == <<"0", "1", "2", "3", "4", "5">>
IndexKey(i) == IndexKeys[i + 1]

\* a node of the store: its key, the type_id stamped on it, the dtype and
\* the content of an array, and the children of a group in store order
CNode(key, tid, dtype, data, children) ==
    [key |-> key, type_id |-> tid, dtype |-> dtype, data |-> data,
     children |-> children]

\* the keys under which the elements of a value are written
ItemKey(value, i) ==
    IF value.cls = "list" THEN IndexKey(i - 1) ELSE value.items[i].key

\* mapper[key] = value for every element in turn, then the node of the
\* container itself: each element is written by the type dispatch selects
RECURSIVE ContainerWrite(_, _)
ContainerWrite(key, value) ==
    LET cls == match_obj_type(ContainerConsumers, value)
    IN  IF cls = "TypeError" THEN [res |-> "TypeError",
                                   node |-> CNode(key, "", "", "", <<>>)]
        ELSE IF cls \in {"DatasetList", "DatasetDict"}
        THEN LET w == [i \in 1..Len(value.items) |->
                          ContainerWrite(ItemKey(value, i),
                                         value.items[i].val)]
             IN  IF \E i \in 1..Len(w) : w[i].res # "ok"
                 THEN [res |-> "TypeError",
                       node |-> CNode(key, "", "", "", <<>>)]
                 ELSE [res |-> "ok",
                       node |-> CNode(key, type_id(cls), "", "",
                                      [i \in 1..Len(w) |-> w[i].node])]
        ELSE [res |-> "ok",
              node |-> CNode(key, type_id(cls),
                             IF cls = "DatasetScalar"
                             THEN (IF value.cls = "int" THEN "int64"
                                   ELSE "float64")
                             ELSE "",
                             IF cls = "DatasetNone" THEN "" ELSE value.data,
                             <<>>)]

\* variant of StoreOrder: the children are iterated in the order of their
\* names
RECURSIVE StoreOrder_byName(_)
StoreOrder_byName(children) ==
    IF Len(children) = 0 THEN <<>>
    ELSE LET rank(k) == CHOOSE i \in 1..3 : <<"a", "b", "c">>[i] = k
             named == \A i \in 1..Len(children) :
                          children[i].key \in {"a", "b", "c"}
             m == IF named
                  THEN CHOOSE i \in 1..Len(children) :
                           \A j \in 1..Len(children) :
                               rank(children[i].key) <= rank(children[j].key)
                  ELSE 1
         IN  <<children[m]>>
             \o StoreOrder_byName(
                    [i \in 1..(Len(children) - 1) |->
                        IF i < m THEN children[i] ELSE children[i + 1]])

\* iter(group): the children in store order, the order of their creation
StoreOrder(children) == children

\* the child of the group stored under key
ChildAt(children, key) ==
    children[CHOOSE i \in 1..Len(children) : children[i].key = key]

\* the node is resolved through its type_id and materialized: a dict from
\* the children in store order, a list from the children in the order of
\* their numeric keys
RECURSIVE ContainerRead(_)
ContainerRead(node) ==
    LET cls == get_attribute_type(ContainerRegistry, node.type_id)
    IN  CASE cls = "DatasetDict" ->
                CObj("dict", "",
                     [i \in 1..Len(node.children) |->
                         Item(StoreOrder(node.children)[i].key,
                              ContainerRead(StoreOrder(node.children)[i]))])
          [] cls = "DatasetList" ->
                CObj("list", "",
                     [i \in 1..Len(node.children) |->
                         Item("", ContainerRead(
                                      ChildAt(node.children,
                                              IndexKey(i - 1))))])
          [] cls = "DatasetScalar" ->
                CObj(IF node.dtype = "int64" THEN "int" ELSE "float",
                     node.data, <<>>)
          [] cls = "DatasetString" -> CObj("str", node.data, <<>>)
          [] cls = "DatasetNone" -> CObj("NoneType", "None", <<>>)
          [] OTHER -> CObj("KeyError", "", <<>>)

\* the elements of the containers written: an int, a str, a float, None, the
\* list [1, 2, 3], an empty list and an empty dict
ListOf123 ==
    CObj("list", "", <<Item("", CObj("int", "1", <<>>)),
                       Item("", CObj("int", "2", <<>>)),
                       Item("", CObj("int", "3", <<>>))>>)
ContainerElems ==
    {CObj("int", "1", <<>>), CObj("str", "x", <<>>),
     CObj("float", "3.5", <<>>), CObj("NoneType", "None", <<>>),
     ListOf123, CObj("list", "", <<>>), CObj("dict", "", <<>>)}

\* the keys of the dicts written
DictKeys == {"a", "b", "c"}

\* the sequences of at most n elements of S
SeqsWithin(S, n) == {<<>>} \cup SeqsUpTo(S, n)

\* the containers written: lists and dicts of at most MaxItems elements; the
\* keys of a dict are distinct
ContainerSubjects ==
    {CObj("list", "", [i \in 1..Len(l) |-> Item("", l[i])]) :
        l \in SeqsWithin(ContainerElems, MaxItems)}
    \cup
    {CObj("dict", "", items) :
        items \in {l \in SeqsWithin({Item(k, v) : k \in DictKeys,
                                                 v \in ContainerElems},
                                    MaxItems) :
                      \A i \in 1..Len(l) : \A j \in 1..Len(l) :
                          l[i].key = l[j].key => i = j}}

ContainerNotWritten == [res |-> "none", node |-> CNode("", "", "", "", <<>>)]
ContainerNotRead == [res |-> "none", value |-> CObj("", "", <<>>)]

InitContainer ==
    /\ registry = EmptyRegistry
    /\ type_consumer_registry = EmptyConsumers
    /\ regOrder = <<>>
    /\ lastReg = [cls |-> "", res |-> "ok"]
    /\ lastMatch = [arg |-> TypeObj("object"), res |-> "TypeError", n |-> 0]
    /\ bind = EmptyGroup
    /\ cache = EmptyCache
    /\ nextNode = 0
    /\ nextWrapper = 0
    /\ last = Idle
    /\ handed = EmptyCache
    /\ resolutions = [k \in Keys |-> 0]
    /\ view = NoView
    /\ dataset = NoDataset
    /\ classes = NoClasses
    /\ subject \in ContainerSubjects
    /\ written = ContainerNotWritten
    /\ readback = ContainerNotRead

\* the container is written to a new group
container_write ==
    /\ written = ContainerNotWritten
    /\ written' = ContainerWrite("value", subject)
    /\ UNCHANGED <<subject, readback>>
    /\ UNCHANGED <<regVars, mapVars, auxVars>>

\* the group written is read
container_read ==
    /\ written.res = "ok"
    /\ readback = ContainerNotRead
    /\ readback' = [res |-> "ok", value |-> ContainerRead(written.node)]
    /\ UNCHANGED <<subject, written>>
    /\ UNCHANGED <<regVars, mapVars, auxVars>>

NextContainer == container_write \/ container_read

SpecContainer == InitContainer /\ [][NextContainer]_vars

(***************************************************************************)
(* Dataset: a standard dataset bound to a folder of files.  The attributes *)
(* found on disk at construction are listed in attrs with the value None    *)
(* and an attribute is loaded from its file when it is first accessed.      *)
(***************************************************************************)
\* the number of times a file of the folder is written after construction
MaxFileWrites == 2

AttrNames == {"molecule", "hf_state"}

\* the values the files hold, by their repr
FileValues == {"1", "2"}

\* no file holds the attribute, or the dataset has no such attribute
Absent == "absent"

\* the value None
None == "None"

\* the attributes a Dataset lists: vars(self) without the private names
DatasetAttrs(d) == {n \in AttrNames : d.attrs[n] # Absent}

\* Dataset.__std_init__: every attribute found in the combined file, or in
\* a file of its own, is read lazily, that is set to None
std_init(full, files) ==
    [full |-> full,
     files |-> files,
     attrs |-> [n \in AttrNames |-> IF files[n] # Absent THEN None
                                    ELSE Absent],
     loaded |-> {},
     writes |-> 0,
     last |-> [op |-> "init", name |-> "", res |-> "ok", ret |-> None]]

\* the attribute is looked up on the instance at every access
Lookup_always(d, name) == Absent

\* the attribute as found on the instance; None counts as not found for a
\* standard dataset
Lookup(d, name) ==
    IF d.attrs[name] = None THEN Absent ELSE d.attrs[name]

\* Dataset.__getattribute__: the value on the instance, or else the value
\* read from the attribute's file (or from the combined file), which is
\* then set on the instance
getattribute(d, name) ==
    IF Lookup(d, name) # Absent
    THEN [d EXCEPT !.last = [op |-> "get", name |-> name, res |-> "ok",
                             ret |-> d.attrs[name]]]
    ELSE IF d.files[name] # Absent
    THEN [d EXCEPT !.attrs[name] = d.files[name],
                   !.loaded = @ \cup {name},
                   !.last = [op |-> "get", name |-> name, res |-> "ok",
                             ret |-> d.files[name]]]
    ELSE [d EXCEPT !.last = [op |-> "get", name |-> name,
                             res |-> "AttributeError", ret |-> None]]

\* Dataset._write_file: the file of the attribute (or its entry of the
\* combined file) is written behind the dataset
write_file(d, name, value) ==
    [d EXCEPT !.files[name] = value,
              !.writes = @ + 1,
              !.last = [op |-> "write_file", name |-> name, res |-> "ok",
                        ret |-> None]]

InitDataset ==
    /\ registry = EmptyRegistry
    /\ type_consumer_registry = EmptyConsumers
    /\ regOrder = <<>>
    /\ lastReg = [cls |-> "", res |-> "ok"]
    /\ lastMatch = [arg |-> TypeObj("object"), res |-> "TypeError", n |-> 0]
    /\ bind = EmptyGroup
    /\ cache = EmptyCache
    /\ nextNode = 0
    /\ nextWrapper = 0
    /\ last = Idle
    /\ handed = EmptyCache
    /\ resolutions = [k \in Keys |-> 0]
    /\ view = NoView
    /\ subject = NoConversion
    /\ written = NoConversion
    /\ readback = NoConversion
    /\ classes = NoClasses
    /\ \E full \in BOOLEAN :
       \E files \in [AttrNames -> FileValues \cup {Absent}] :
           dataset = std_init(full, files)

\* dataset.<name>
dataset_getattr(name) ==
    /\ dataset' = getattribute(dataset, name)
    /\ UNCHANGED <<regVars, mapVars, convVars, classes>>

\* a file of the folder is written after the dataset was constructed
dataset_write_file(name, value) ==
    /\ dataset.writes < MaxFileWrites
    /\ dataset' = write_file(dataset, name, value)
    /\ UNCHANGED <<regVars, mapVars, convVars, classes>>

NextDataset ==
    \/ \E name \in AttrNames : dataset_getattr(name)
    \/ \E name \in AttrNames, value \in FileValues :
           dataset_write_file(name, value)

SpecDataset == InitDataset /\ [][NextDataset]_vars

(***************************************************************************)
(* TransformDispatcher: a transform is wrapped in a dispatcher, which is    *)
(* then applied to an object followed by the arguments of the transform.     *)
(***************************************************************************)
\* the number of transform arguments that follow the object
MaxArgs == 2

\* the objects a dispatcher is applied to, by what isinstance and callable
\* say of them; NoObj is the call without positional arguments (obj = None)
ObjKinds == {"QuantumTape", "QNode", "qfunc", "RX", "int", "NoObj"}

isQuantumTape(obj) == obj = "QuantumTape"

isQNode(obj) == obj = "QNode"

\* a QNode and a quantum function are callable; a tape, an operator
\* instance, an int and None are not
callable(obj) == obj \in {"QNode", "qfunc"}

\* the transforms handed to the constructor: a function or a non-callable
Transforms == {"first_valid_transform", "non_callable"}

\* TransformDispatcher.__init__
TransformDispatcher_init(s) ==
    IF s.transform \notin {"first_valid_transform"}
    THEN [res |-> "TransformError"]
    ELSE [res |-> "ok"]

\* the else branch of __call__ raising the error it builds
InvalidObject_raise == [res |-> "TransformError", ret |-> "", nargs |-> 0]

\* the else branch of __call__: the TransformError is built and dropped, and
\* the call returns None
InvalidObject == [res |-> "ok", ret |-> "None", nargs |-> 0]

\* TransformDispatcher.__call__(obj, *targs)
TransformDispatcher_call(s) ==
    IF isQuantumTape(s.obj)
    THEN [res |-> "ok", ret |-> "transformed", nargs |-> s.nargs]
    ELSE IF isQNode(s.obj)
    THEN \* default_qnode_transform takes no keyword expand_transform
         [res |-> "TypeError", ret |-> "", nargs |-> 0]
    ELSE IF callable(s.obj)
    THEN [res |-> "ok", ret |-> "wrapper", nargs |-> s.nargs]
    ELSE InvalidObject

NotConstructed == [res |-> "none"]
NotApplied == [res |-> "none", ret |-> "", nargs |-> 0]

InitDispatcher ==
    /\ registry = EmptyRegistry
    /\ type_consumer_registry = EmptyConsumers
    /\ regOrder = <<>>
    /\ lastReg = [cls |-> "", res |-> "ok"]
    /\ lastMatch = [arg |-> TypeObj("object"), res |-> "TypeError", n |-> 0]
    /\ bind = EmptyGroup
    /\ cache = EmptyCache
    /\ nextNode = 0
    /\ nextWrapper = 0
    /\ last = Idle
    /\ handed = EmptyCache
    /\ resolutions = [k \in Keys |-> 0]
    /\ view = NoView
    /\ dataset = NoDataset
    /\ classes = NoClasses
    /\ subject \in [transform : Transforms,
                    expand_transform : BOOLEAN,
                    qnode_postprocessing : BOOLEAN,
                    obj : ObjKinds,
                    nargs : 0..MaxArgs]
    /\ subject.obj = "NoObj" => subject.nargs = 0
    /\ written = NotConstructed
    /\ readback = NotApplied

\* transform(fn, ...): the dispatcher is constructed
dispatcher_init ==
    /\ written = NotConstructed
    /\ written' = TransformDispatcher_init(subject)
    /\ UNCHANGED <<subject, readback>>
    /\ UNCHANGED <<regVars, mapVars, auxVars>>

\* dispatched_transform(obj, *targs)
dispatcher_call ==
    /\ written.res = "ok"
    /\ readback = NotApplied
    /\ readback' = TransformDispatcher_call(subject)
    /\ UNCHANGED <<subject, written>>
    /\ UNCHANGED <<regVars, mapVars, auxVars>>

NextDispatcher == dispatcher_init \/ dispatcher_call

SpecDispatcher == InitDispatcher /\ [][NextDispatcher]_vars

(***************************************************************************)
(* The mapper with operators: DatasetOperator is registered with the other  *)
(* Attribute Types and operators are assigned through the mapper.           *)
(***************************************************************************)
\* the import order of pennylane.data.attributes, DatasetOperator included
OperatorImportOrder ==
    <<"DatasetArray", "DatasetNone", "DatasetOperator", "DatasetString">>

\* the values assigned: operators of a supported class, of a user-defined
\* subclass, with a wire label that cannot be serialized, a Tensor with a
\* factor of a user-defined subclass, and a string
OperatorSetValues ==
    {Obj("PauliX", "PauliX(0)"), Obj("MyPauliX", "MyPauliX(0)"),
     Obj("PauliX", "PauliX(Odd(2))"),
     Obj("Tensor", "PauliX(0) @ MyPauliX(0)"), Obj("str", "x")}

InitOperatorMapper ==
    /\ registry = RegistryAfter(OperatorImportOrder, Len(OperatorImportOrder))
    /\ type_consumer_registry =
           ConsumersAfter(OperatorImportOrder, Len(OperatorImportOrder))
    /\ regOrder = OperatorImportOrder
    /\ lastReg = [cls |-> "", res |-> "ok"]
    /\ lastMatch = [arg |-> TypeObj("object"), res |-> "TypeError", n |-> 0]
    /\ bind \in InitialGroups
    /\ cache = EmptyCache
    /\ nextNode = 1
    /\ nextWrapper = 0
    /\ last = Idle
    /\ handed = EmptyCache
    /\ resolutions = [k \in Keys |-> 0]
    /\ view = NoView
    /\ dataset = NoDataset
    /\ classes = NoClasses
    /\ subject = NoConversion
    /\ written = NoConversion
    /\ readback = NoConversion

NextOperatorMapper ==
    \/ \E key \in Keys : getitem(key)
    \/ \E key \in Keys : \E value \in OperatorSetValues :
           set_item(key, value, NoInfo, NoReq)
    \/ \E key \in Keys : delitem(key)
    \/ \E key \in Keys : contains(key)

SpecOperatorMapper == InitOperatorMapper /\ [][NextOperatorMapper]_vars

(***************************************************************************)
(* The operator class tables of attributes/operator.py.  The subclasses of  *)
(* Operator are collected by a walk over __subclasses__() and the result is *)
(* memoized (lru_cache); the table from class name to class is built from  *)
(* it and memoized too.  Classes are defined while the process runs.        *)
(***************************************************************************)
\* the number of Operator subclasses defined after the module is imported
MaxUserClasses == 2

\* the subclasses of Operator that exist when the module is imported
LibraryClasses == {"pennylane.PauliX", "pennylane.RX"}

\* the subclasses of Operator a user of the library defines later
UserClasses == {"user.MyPauliX", "user.MyGate", "user.MyRX"}

\* the base class of a class
BaseOf(c) ==
    CASE c = "pennylane.PauliX" -> "pennylane.Operator"
      [] c = "pennylane.RX"     -> "pennylane.Operator"
      [] c = "user.MyPauliX"    -> "pennylane.PauliX"
      [] c = "user.MyGate"      -> "pennylane.Operator"
      [] c = "user.MyRX"        -> "pennylane.RX"

\* cls.__qualname__
Qualname(c) ==
    CASE c = "pennylane.PauliX" -> "PauliX"
      [] c = "pennylane.RX"     -> "RX"
      [] c = "user.MyPauliX"    -> "MyPauliX"
      [] c = "user.MyGate"      -> "MyGate"
      [] c = "user.MyRX"        -> "MyRX"

\* cls.__subclasses__() among the classes defined
Subclasses(defined, cls) == {c \in defined : BaseOf(c) = cls}

\* rec(cls): the subclasses of cls not in acc are added to acc, each
\* followed by its own
RECURSIVE rec(_, _, _)
rec(defined, cls, acc) ==
    LET new == Subclasses(defined, cls) \ acc
    IN  IF new = {} THEN acc
        ELSE LET subcls == CHOOSE c \in new : TRUE
             IN  rec(defined, cls, rec(defined, subcls, acc \cup {subcls}))

\* the body of _get_all_operator_classes
AllOperatorClasses(defined) == rec(defined, "pennylane.Operator", {})

\* the body of _operator_name_to_class_dict
NameToClass(op_classes) ==
    [n \in {Qualname(c) : c \in op_classes} |->
        CHOOSE c \in op_classes : Qualname(c) = n]

NoDict == [n \in {} |-> ""]

\* variant of lru_cache: the function is run at every call
lru_cache_off(set, memo, fresh) == fresh

\* @lru_cache(1) on a function without arguments: the result of the first
\* call is returned by every later call
lru_cache(set, memo, fresh) == IF set THEN memo ELSE fresh

\* _get_all_operator_classes()
get_all(cl) ==
    lru_cache(cl.all.set, cl.all.val, AllOperatorClasses(cl.defined))

\* _operator_name_to_class_dict()
name_to_class(cl) ==
    lru_cache(cl.dict.set, cl.dict.val, NameToClass(get_all(cl)))

\* the process once attributes/operator.py is imported
Imported ==
    [defined |-> LibraryClasses,
     late |-> {},
     all |-> [set |-> FALSE, val |-> {}],
     dict |-> [set |-> FALSE, val |-> NoDict],
     last |-> [op |-> "import", arg |-> "", res |-> "ok", ret |-> {},
               cls |-> ""]]

InitClassTable ==
    /\ registry = EmptyRegistry
    /\ type_consumer_registry = EmptyConsumers
    /\ regOrder = <<>>
    /\ lastReg = [cls |-> "", res |-> "ok"]
    /\ lastMatch = [arg |-> TypeObj("object"), res |-> "TypeError", n |-> 0]
    /\ bind = EmptyGroup
    /\ cache = EmptyCache
    /\ nextNode = 0
    /\ nextWrapper = 0
    /\ last = Idle
    /\ handed = EmptyCache
    /\ resolutions = [k \in Keys |-> 0]
    /\ view = NoView
    /\ dataset = NoDataset
    /\ subject = NoConversion
    /\ written = NoConversion
    /\ readback = NoConversion
    /\ classes = Imported

\* class c(base): ...; late records the classes defined after the first
\* call of _get_all_operator_classes
define_class(c) ==
    /\ c \notin classes.defined
    /\ BaseOf(c) \in classes.defined
       \/ BaseOf(c) = "pennylane.Operator"
    /\ Cardinality(classes.defined \ LibraryClasses) < MaxUserClasses
    /\ classes' = [classes EXCEPT
                     !.defined = @ \cup {c},
                     !.late = IF classes.all.set THEN @ \cup {c} ELSE @,
                     !.last = [op |-> "class", arg |-> c, res |-> "ok",
                               ret |-> {}, cls |-> ""]]
    /\ UNCHANGED <<regVars, mapVars, convVars, dataset>>

\* DatasetOperator.consumes_types()
consumes_types_call ==
    /\ classes' = [classes EXCEPT
                     !.all = [set |-> TRUE, val |-> get_all(classes)],
                     !.last = [op |-> "consumes_types", arg |-> "",
                               res |-> "ok", ret |-> get_all(classes),
                               cls |-> ""]]
    /\ UNCHANGED <<regVars, mapVars, convVars, dataset>>

\* DatasetOperator.zarr_to_value for a group whose operator_class is name:
\* op_cls = _operator_name_to_class_dict()[name]
zarr_to_value(name) ==
    LET d == name_to_class(classes)
        found == name \in DOMAIN d
    IN  /\ classes' = [classes EXCEPT
                         !.all = [set |-> TRUE, val |-> get_all(classes)],
                         !.dict = [set |-> TRUE, val |-> d],
                         !.last = [op |-> "zarr_to_value", arg |-> name,
                                   res |-> IF found THEN "ok" ELSE "KeyError",
                                   ret |-> {},
                                   cls |-> IF found THEN d[name] ELSE ""]]
        /\ UNCHANGED <<regVars, mapVars, convVars, dataset>>

NextClassTable ==
    \/ \E c \in UserClasses : define_class(c)
    \/ consumes_types_call
    \/ \E c \in LibraryClasses \cup UserClasses : zarr_to_value(Qualname(c))

SpecClassTable == InitClassTable /\ [][NextClassTable]_vars

(***************************************************************************)
(* wires_to_json on its own: a sequence of wire labels is written as JSON   *)
(* text and the text is decoded.                                            *)
(***************************************************************************)
\* the number of wire labels of a sequence
MaxWires == 2

\* the wire labels written
WireLabels ==
    {Label("int", "0"), Label("int", "1"), Label("str", "a"),
     Label("float", "1.5"), Label("NoneType", ""), Label("bool", "True"),
     Label("np.int64", "1"), Label("OddIntegral", "2"),
     Label("object", "o"), Label("tuple", "(0, 1)")}

\* Wires([...]): the sequences of wire labels, the empty one included
WireSubjects == {<<>>} \cup SeqsUpTo(WireLabels, MaxWires)

WiresNotWritten == [res |-> "none", bad |-> NoLabel, json |-> <<>>]
WiresNotRead == [res |-> "none", wires |-> <<>>]

InitWires ==
    /\ registry = EmptyRegistry
    /\ type_consumer_registry = EmptyConsumers
    /\ regOrder = <<>>
    /\ lastReg = [cls |-> "", res |-> "ok"]
    /\ lastMatch = [arg |-> TypeObj("object"), res |-> "TypeError", n |-> 0]
    /\ bind = EmptyGroup
    /\ cache = EmptyCache
    /\ nextNode = 0
    /\ nextWrapper = 0
    /\ last = Idle
    /\ handed = EmptyCache
    /\ resolutions = [k \in Keys |-> 0]
    /\ view = NoView
    /\ dataset = NoDataset
    /\ classes = NoClasses
    /\ subject \in WireSubjects
    /\ written = WiresNotWritten
    /\ readback = WiresNotRead

\* wires_to_json(wires)
wires_write ==
    /\ written = WiresNotWritten
    /\ written' = wires_to_json(subject)
    /\ UNCHANGED <<subject, readback>>
    /\ UNCHANGED <<regVars, mapVars, auxVars>>

\* json.loads of the text returned
wires_read ==
    /\ written.res = "ok"
    /\ readback = WiresNotRead
    /\ readback' = [res |-> "ok", wires |-> JsonLoadList(written.json)]
    /\ UNCHANGED <<subject, written>>
    /\ UNCHANGED <<regVars, mapVars, auxVars>>

NextWires == wires_write \/ wires_read

SpecWires == InitWires /\ [][NextWires]_vars

(***************************************************************************)
(* _group_summands (transforms/hamiltonian_expand.py): the operands of a    *)
(* Sum are put into groups of operators on disjoint wires.  An operand is   *)
(* given by the set of wires it acts on and is named by its position in    *)
(* the Sum.                                                                 *)
(***************************************************************************)
\* the number of operands of the Sum
MaxSummands == 3

\* the wires of the operands
SummandWires == {{0}, {1}, {2}, {0, 1}, {1, 2}, {}}

\* sum.operands
SumSubjects == SeqsUpTo(SummandWires, MaxSummands)

\* all(wire not in summand.wires for wire in wires)
Disjoint(wires, summand_wires) == \A wire \in wires : wire \notin summand_wires

\* variant of FirstFit: the last group on disjoint wires is taken
FirstFit_last(qwc_groups, summand_wires) ==
    IF \E idx \in 1..Len(qwc_groups) :
           Disjoint(qwc_groups[idx].wires, summand_wires)
    THEN CHOOSE idx \in 1..Len(qwc_groups) :
             /\ Disjoint(qwc_groups[idx].wires, summand_wires)
             /\ \A j \in (idx + 1)..Len(qwc_groups) :
                    ~Disjoint(qwc_groups[j].wires, summand_wires)
    ELSE 0

\* the inner loop: the index of the first group whose wires are disjoint
\* from those of the summand, 0 if the loop ends without a break
FirstFit(qwc_groups, summand_wires) ==
    IF \E idx \in 1..Len(qwc_groups) :
           Disjoint(qwc_groups[idx].wires, summand_wires)
    THEN CHOOSE idx \in 1..Len(qwc_groups) :
             /\ Disjoint(qwc_groups[idx].wires, summand_wires)
             /\ \A j \in 1..(idx - 1) :
                    ~Disjoint(qwc_groups[j].wires, summand_wires)
    ELSE 0

\* the outer loop from operand i on
RECURSIVE GroupLoop(_, _, _)
GroupLoop(operands, i, qwc_groups) ==
    IF i > Len(operands) THEN qwc_groups
    ELSE LET idx == FirstFit(qwc_groups, operands[i])
         IN  IF idx # 0
             THEN GroupLoop(operands, i + 1,
                      [qwc_groups EXCEPT
                         ![idx] = [wires |-> @.wires \cup operands[i],
                                   group |-> Append(@.group, i)]])
             ELSE GroupLoop(operands, i + 1,
                      Append(qwc_groups,
                             [wires |-> operands[i], group |-> <<i>>]))

\* _group_summands(sum): the groups, each the positions of its operands
_group_summands(operands) ==
    LET qwc_groups == GroupLoop(operands, 1, <<>>)
    IN  [idx \in 1..Len(qwc_groups) |-> qwc_groups[idx].group]

\* sum_expand with group=True: one tape per group, measuring the
\* observables of the group
GroupTapes(operands, obs_groupings) ==
    [t \in 1..Len(obs_groupings) |->
        [o \in 1..Len(obs_groupings[t]) |-> operands[obs_groupings[t][o]]]]

NotGrouped == [res |-> "none", groups |-> <<>>]
NoTapes == [res |-> "none", tapes |-> <<>>]

InitSummands ==
    /\ registry = EmptyRegistry
    /\ type_consumer_registry = EmptyConsumers
    /\ regOrder = <<>>
    /\ lastReg = [cls |-> "", res |-> "ok"]
    /\ lastMatch = [arg |-> TypeObj("object"), res |-> "TypeError", n |-> 0]
    /\ bind = EmptyGroup
    /\ cache = EmptyCache
    /\ nextNode = 0
    /\ nextWrapper = 0
    /\ last = Idle
    /\ handed = EmptyCache
    /\ resolutions = [k \in Keys |-> 0]
    /\ view = NoView
    /\ dataset = NoDataset
    /\ classes = NoClasses
    /\ subject \in SumSubjects
    /\ written = NotGrouped
    /\ readback = NoTapes

\* obs_groupings = _group_summands(sum_op)
group_summands ==
    /\ written = NotGrouped
    /\ written' = [res |-> "ok", groups |-> _group_summands(subject)]
    /\ UNCHANGED <<subject, readback>>
    /\ UNCHANGED <<regVars, mapVars, auxVars>>

\* the tapes of sum_expand are made from the groups
make_tapes ==
    /\ written.res = "ok"
    /\ readback = NoTapes
    /\ readback' = [res |-> "ok", tapes |-> GroupTapes(subject, written.groups)]
    /\ UNCHANGED <<subject, written>>
    /\ UNCHANGED <<regVars, mapVars, auxVars>>

NextSummands == group_summands \/ make_tapes

SpecSummands == InitSummands /\ [][NextSummands]_vars

(***************************************************************************)
(* Properties of the registry.                                              *)
(***************************************************************************)
\* the registered Attribute Type classes
Registered == {regOrder[i] : i \in 1..Len(regOrder)}

\* the registered classes that declare t in consumes_types()
Consumers(t) == {c \in Registered : t \in consumes_types(c)}

\* the class of S that was registered last
LastRegistered(S) ==
    regOrder[CHOOSE i \in 1..Len(regOrder) :
                 /\ regOrder[i] \in S
                 /\ \A j \in (i + 1)..Len(regOrder) : regOrder[j] \notin S]

\* C5: subclass precedence.  When a registered type consumes a class B and a
\* registered type consumes a strict subclass S of B, dispatching an instance
\* of S, or S itself, selects a type registered for S, whatever the order of
\* registration.
C5_SubclassPrecedence ==
    \A S \in PyTypes : \A B \in PyTypes :
        (StrictSubclass(S, B) /\ Consumers(S) # {} /\ Consumers(B) # {})
        => /\ match_obj_type(type_consumer_registry, Obj(S, "")) \in Consumers(S)
           /\ match_obj_type(type_consumer_registry, TypeObj(S)) \in Consumers(S)

\* a Wires instance was dispatched to DatasetWires although the type that
\* consumes its base class Sequence was registered after DatasetWires
C5_Witness ==
    /\ lastMatch.arg = Obj("Wires", "")
    /\ lastMatch.res = "DatasetWires"
    /\ lastMatch.n = Len(regOrder)
    /\ regOrder = <<"DatasetWires", "UserSequence">>

\* C6: tie-break.  When several registered types declare the same exact
\* class, dispatching a value of that class selects the one registered last.
C6_LastRegisteredWins ==
    \A t \in PyTypes :
        Cardinality(Consumers(t)) >= 2
        => /\ match_obj_type(type_consumer_registry, Obj(t, ""))
                  = LastRegistered(Consumers(t))
           /\ match_obj_type(type_consumer_registry, TypeObj(t))
                  = LastRegistered(Consumers(t))

\* a str was dispatched to UserString, registered after DatasetString
C6_Witness ==
    /\ lastMatch.arg = Obj("str", "")
    /\ lastMatch.res = "UserString"
    /\ lastMatch.n = Len(regOrder)
    /\ regOrder = <<"DatasetString", "UserString">>

C9_TypeIdUnique ==
    /\ [](\A c \in Registered : \A d \in Registered :
              /\ (type_id(c) = type_id(d) => c = d)
              /\ get_attribute_type(registry, type_id(c)) = c)
    /\ [][/\ (lastReg'.res = "ConflictError"
                => /\ registry' = registry
                   /\ type_consumer_registry' = type_consumer_registry
                   /\ regOrder' = regOrder)
          /\ ((/\ lastReg'.cls \in AttrTypes
                /\ registry[type_id(lastReg'.cls)] \notin {Unbound, lastReg'.cls})
                => lastReg'.res = "ConflictError")]_vars

\* the DatasetOperator of attributes/operator.py was refused because the
\* type_id "operator" was bound to the one of attributes/operator/operator.py
C9_Witness ==
    /\ lastReg = [cls |-> "operator.DatasetOperator", res |-> "ConflictError"]
    /\ registry["operator"] = "DatasetOperator"


(***************************************************************************)
(* Properties of the mapper.                                                *)
(***************************************************************************)
\* the outcome a lookup of key would have in the state reached by the step
GetOutcomeAfter(key) == GetOutcome(bind', cache', registry', key, nextWrapper')

\* C1: cache coherence.  A get(key) that immediately follows a set(key, v)
\* that returned yields a wrapper bound to the node that set created, and not
\* the wrapper that was cached before the set; a get(key) that immediately
\* follows a delete(key) that returned fails and yields no wrapper.
C1_CacheCoherence ==
    [][/\ (/\ last.op = "set" /\ last.res = "ok"
           /\ last'.op = "get" /\ last'.key = last.key)
          => /\ last'.res = "ok"
             /\ last'.ret.node = last.made
             /\ bind[last.key].id = last.made
             /\ last'.ret # last.stale
       /\ (/\ last.op = "delete" /\ last.res = "ok"
           /\ last'.op = "get" /\ last'.key = last.key)
          => /\ last'.res = "KeyError"
             /\ last'.ret = NoWrapper]_vars

\* a key that was cached has been set again and then read: the read returned
\* a second wrapper, bound to the node created by the set
C1_Witness ==
    /\ last.op = "get" /\ last.res = "ok" /\ last.key = "a"
    /\ last.ret.wid = 1
    /\ last.ret.node = 1
    /\ bind["a"].id = 1

C3_SingleResolution ==
    /\ [][(/\ last'.op = "get" /\ last'.res = "ok"
           /\ handed[last'.key] # NoWrapper)
          => last'.ret = handed[last'.key]]_vars
    /\ [](\A k \in Keys : resolutions[k] <= 1)

\* key "a" was read, then "b", then "a" again: the second read of "a" hit the
\* cache
C3_Witness ==
    /\ last.op = "get" /\ last.key = "a" /\ last.res = "ok"
    /\ last.stale = last.ret
    /\ cache["b"] # NoWrapper
    /\ resolutions["a"] = 1

C10_UnknownTypeOnRead ==
    [][(/\ last'.op = "get"
        /\ GroupContains(bind, last'.key)
        /\ get_attribute_type(registry, bind[last'.key].type_id) = "KeyError")
       => /\ last'.res = "KeyError"
          /\ last'.ret = NoWrapper
          /\ cache' = cache
          /\ cache'[last'.key] = NoWrapper
          /\ GetOutcomeAfter(last'.key).res = "KeyError"]_vars

\* a node without type_id was read and refused
C10_Witness ==
    /\ last.op = "get" /\ last.res = "KeyError"
    /\ GroupContains(bind, last.key)
    /\ bind[last.key].type_id = ""


\* C11: require_type enforcement.  set(key, value, require_type=T) where
\* value is an Attribute Type instance that is not an instance of T raises
\* TypeError carrying (key, T, type(value)) and leaves the store and the
\* cache, the cached entry of key included, unchanged; where value is a
\* plain value the node written is of type T, whatever type dispatch would
\* select, and a set that fails writes nothing.
C11_RequireType ==
    [][(last'.op = "set" /\ last'.req # NoReq)
       => /\ (last'.val.kind = "attr" /\ last'.val.cls # last'.req)
              => /\ last'.res = "TypeError"
                 /\ last'.args = <<last'.key, last'.req, last'.val.cls>>
                 /\ bind' = bind
                 /\ cache' = cache
          /\ last'.val.kind = "obj"
              => IF last'.res = "ok"
                 THEN /\ bind'[last'.key].id = last'.made
                      /\ bind'[last'.key].type_id = type_id(last'.req)
                 ELSE bind' = bind]_vars

\* a string instance was refused where an array is required, under a key
\* whose wrapper is cached, after a str was written as an array
C11_Witness ==
    /\ last.op = "set"
    /\ last.val = AttrObj("DatasetString", "y")
    /\ last.req = "DatasetArray"
    /\ last.res = "TypeError"
    /\ last.stale # NoWrapper
    /\ cache[last.key] = last.stale
    /\ \E k \in Keys : bind[k].type_id = "array" /\ bind[k].data = "x"

\* the class that writes the node of a set: the class of the instance
\* attached, the required type, or the type dispatch selects
WriterClass(c) ==
    IF c.val.kind = "attr" THEN c.val.cls
    ELSE IF c.req # NoReq THEN c.req
    ELSE match_obj_type(type_consumer_registry, c.val)

Touches(c, k) == c.op \in {"delete", "move", "set"} /\ c.key = k

\* C18: node lifetime.  A key present in the group stays present and bound
\* to the same node across every call other than delete(key),
\* move(key, dest) and set(key, ...): get, membership tests, iteration, len,
\* view, calls through the view and set, move, delete of other keys neither
\* remove nor replace it.
C18_NodeLifetime ==
    [][\A k \in Keys :
           (GroupContains(bind, k) /\ ~Touches(last', k))
           => bind'[k] = bind[k]]_vars

\* a move onto the key that has held node 0 since construction was refused
C18_Witness ==
    /\ last.op = "move"
    /\ last.key = "b"
    /\ last.dest = "a"
    /\ last.res = "ValueError"
    /\ bind["a"].id = 0
    /\ view.taken

\* C19: lazy read.  Constructing a mapper resolves and caches nothing;
\* get(key) wraps only the child at key, without converting it to a value and
\* without touching the store; the cache holds only wrappers that get
\* returned since the last eviction of their key.
C19_LazyRead ==
    /\ [](last.op = "init"
            => /\ cache = EmptyCache
               /\ nextWrapper = 0
               /\ \A k \in Keys : resolutions[k] = 0)
    /\ [](\A k \in Keys : cache[k] # NoWrapper => handed[k] = cache[k])
    /\ [][last'.op = "get"
           => /\ \A k \in Keys \ {last'.key} : cache'[k] = cache[k]
              /\ bind' = bind
              /\ last'.conv = 0
              /\ last'.res = "ok"
                  => /\ last'.ret.node = bind[last'.key].id
                     /\ cache'[last'.key] = last'.ret]_vars

\* a get wrapped one of two children and the other one is not cached
C19_Witness ==
    /\ last.op = "get"
    /\ last.res = "ok"
    /\ last.stale = NoWrapper
    /\ cache[last.key] = last.ret
    /\ \E k \in Keys \ {last.key} :
           GroupContains(bind, k) /\ cache[k] = NoWrapper

\* the calls made through the view
ViewOps == {"view.get", "view.set", "view.delete", "view.contains",
            "view.iter", "view.len"}

\* what a call through the view returns is what the same call on the mapper
\* returns in the same state
ViewIsLive ==
    /\ last'.op = "view.get"
        => /\ last'.res = GetOutcome(bind, cache, registry, last'.key,
                                     nextWrapper).res
           /\ last'.ret = GetOutcome(bind, cache, registry, last'.key,
                                     nextWrapper).ret
           /\ last'.res = "ok" => GetOutcomeAfter(last'.key).ret = last'.ret
    /\ last'.op = "view.contains"
        => (last'.res = "True") = Contains(bind, cache, last'.key)
    /\ last'.op = "view.iter" => last'.keys = Iter(bind)
    /\ last'.op = "view.len" => last'.len = GroupLen(bind)

\* C20 as stated: no call through the view changes the store or the cache;
\* assignment and deletion through it fail; a lookup through it returns the
\* wrapper a lookup on the mapper returns, and the view reflects the calls
\* made on the mapper after it was taken.
C20_ViewAsStated ==
    [][(last'.op \in ViewOps)
       => /\ bind' = bind
          /\ cache' = cache
          /\ last'.op \in {"view.set", "view.delete"}
              => last'.res = "TypeError"
          /\ ViewIsLive]_vars

\* C20, amended: no call through the view changes the store; assignment and
\* deletion through it fail and leave the cache unchanged too; a lookup
\* through it returns the wrapper a lookup on the mapper returns and, like
\* that lookup, caches the wrapper it creates on a miss, which is the only
\* change of the cache a call through the view makes; the view reflects the
\* calls made on the mapper after it was taken.
C20_View ==
    [][(last'.op \in ViewOps)
       => /\ bind' = bind
          /\ \A k \in Keys :
                 cache'[k] # cache[k]
                 => /\ last'.op = "view.get"
                    /\ last'.key = k
                    /\ last'.res = "ok"
                    /\ cache[k] = NoWrapper
                    /\ cache'[k] = last'.ret
          /\ last'.op \in {"view.set", "view.delete"}
              => last'.res = "TypeError"
          /\ ViewIsLive]_vars

\* a lookup through the view returned the wrapper of a node that a set on
\* the mapper created
C20_Witness ==
    /\ view.taken
    /\ last.op = "view.get"
    /\ last.res = "ok"
    /\ last.ret.node = 1
    /\ cache[last.key] = last.ret


(***************************************************************************)
(* Properties of the operator conversions.                                  *)
(***************************************************************************)
\* two wire labels are equal as Python values
LabelEq(a, b) ==
    /\ a.val = b.val
    /\ a.ty = b.ty \/ {a.ty, b.ty} \subseteq {"int", "np.int64"}

\* two lists of operators agree entry by entry: same class, same wire
\* labels, same parameters, and the factors of a Tensor agree in turn
RECURSIVE SameOps(_, _)
SameOps(a, b) ==
    /\ Len(a) = Len(b)
    /\ \A i \in 1..Len(a) :
           /\ a[i].cls = b[i].cls
           /\ IF a[i].cls = "Tensor" THEN SameOps(a[i].obs, b[i].obs)
              ELSE /\ Len(a[i].wires) = Len(b[i].wires)
                   /\ \A j \in 1..Len(a[i].wires) :
                          LabelEq(a[i].wires[j], b[i].wires[j])
                   /\ a[i].data = b[i].data

\* the operators other than Tensor of a list, in the order they are written
RECURSIVE OpFlatten(_)
OpFlatten(value) ==
    IF Len(value) = 0 THEN <<>>
    ELSE (IF Head(value).cls = "Tensor" THEN OpFlatten(Head(value).obs)
          ELSE <<Head(value)>>) \o OpFlatten(Tail(value))

\* C12: operator round trip.  Writing a list of operators and reading the
\* group back yields a list of the same length whose entries have the same
\* class, wire labels and parameters as the originals, a Tensor being read
\* back as a Tensor of its round-tripped factors.
C12_OperatorRoundTrip ==
    readback.res = "ok" => SameOps(subject.ops, readback.ops)

\* the exact class of op is not in the supported set
Unsupported(op) == op.cls \notin supported_ops

\* the wire label w is an integral value that differs from its int conversion
OddLabel(w) == w.ty = "OddIntegral"

\* the wire label w is an integer, an integral value equal to its int
\* conversion, a string, a bool or None
PlainLabel(w) == w.ty \in {"int", "np.int64", "str", "bool", "NoneType"}

\* the first operator of the sequence leaves, from position i on, that is of
\* an unsupported class or has a wire label that differs from its int
\* conversion
RECURSIVE FirstFault(_, _)
FirstFault(leaves, i) ==
    IF \/ Unsupported(leaves[i])
       \/ \E j \in 1..Len(leaves[i].wires) : OddLabel(leaves[i].wires[j])
    THEN leaves[i]
    ELSE FirstFault(leaves, i + 1)

\* a value that holds an operator of an unsupported class was written
WroteUnsupported ==
    /\ written.res # "none"
    /\ \E i \in 1..Len(OpFlatten(subject.ops)) :
           Unsupported(OpFlatten(subject.ops)[i])

\* C13 as stated: writing an operator, or a list or Tensor that holds at any
\* position an operator whose exact class is not in the supported set, fails
\* with a TypeError naming that class.
C13_UnsupportedAsStated ==
    WroteUnsupported
    => /\ written.res \in {"TypeError", "UnserializableWireError"}
       /\ \E i \in 1..Len(OpFlatten(subject.ops)) :
              /\ Unsupported(OpFlatten(subject.ops)[i])
              /\ written.err = ClassName(OpFlatten(subject.ops)[i].cls)

\* C13, amended: such a write fails with a TypeError; the error names the
\* first operator of an unsupported class in writing order, unless an
\* operator written before it has a wire label that differs from its int
\* conversion, in which case the error is the UnserializableWireError (a
\* TypeError) raised for that label.
C13_Unsupported ==
    WroteUnsupported
    => LET f == FirstFault(OpFlatten(subject.ops), 1)
       IN  IF Unsupported(f)
           THEN /\ written.res = "TypeError"
                /\ written.err = ClassName(f.cls)
           ELSE /\ written.res = "UnserializableWireError"
                /\ OddLabel(written.bad)
                /\ \E j \in 1..Len(f.wires) : f.wires[j] = written.bad

\* a list whose second entry is a Tensor that holds an instance of a user's
\* subclass of PauliX was refused
C13_Witness ==
    /\ written.res = "TypeError"
    /\ written.err = "MyPauliX"
    /\ Len(subject.ops) = 2
    /\ subject.ops[2].cls = "Tensor"
    /\ \E j \in 1..Len(subject.ops[2].obs) :
           subject.ops[2].obs[j].cls = "MyPauliX"

\* C14: writing an operator one of whose wire labels is neither an integer
\* (or an integral value equal to its int conversion), a string, a bool nor
\* None never succeeds, and raises UnserializableWireError when every class
\* written is supported.
C14_UnserializableWire ==
    (/\ written.res # "none"
     /\ \E i \in 1..Len(OpFlatten(subject.ops)) :
            \E j \in 1..Len(OpFlatten(subject.ops)[i].wires) :
                ~PlainLabel(OpFlatten(subject.ops)[i].wires[j]))
    => /\ written.res # "ok"
       /\ (\A i \in 1..Len(OpFlatten(subject.ops)) :
               ~Unsupported(OpFlatten(subject.ops)[i]))
          => written.res = "UnserializableWireError"


(***************************************************************************)
(* Properties of the Hamiltonian conversion.                                *)
(***************************************************************************)
\* two Pauli words are equal as operators: the same letters on the same
\* wires
SameWord(a, b) ==
    {a[j] : j \in 1..Len(a)} = {b[j] : j \in 1..Len(b)}

\* C15: Hamiltonian round trip with wire remapping.  Writing a Hamiltonian
\* of Pauli words, identity terms included, and reading it back yields a
\* Hamiltonian with the same wire list in the same order, the same
\* coefficients and, term by term, the same operators.
C15_HamiltonianRoundTrip ==
    readback.res # "none"
    => /\ readback.res = "ok"
       /\ readback.ham.wires = subject.wires
       /\ readback.ham.coeffs = subject.coeffs
       /\ Len(readback.ham.ops) = Len(subject.ops)
       /\ \A i \in 1..Len(subject.ops) :
              SameWord(readback.ham.ops[i], subject.ops[i])

ScenarioTypeIds ==
    (/\ written.res = "ok"
     /\ subject = CObj("dict", "", <<Item("a", CObj("int", "1", <<>>)),
                                     Item("b", ListOf123),
                                     Item("c", CObj("NoneType", "None",
                                                    <<>>))>>))
    => /\ Len(written.node.children) = 3
       /\ [i \in 1..3 |-> written.node.children[i].type_id]
          = <<"scalar", "list", "none">>
       /\ [i \in 1..3 |-> written.node.children[i].key] = <<"a", "b", "c">>

(***************************************************************************)
(* Properties of the Dataset.                                               *)
(***************************************************************************)
\* C21: lazy loading.  For a standard dataset backed by files, with one
\* combined file or with one file per attribute alike, the entry of an
\* attribute in attrs is None until the attribute is first accessed;
\* accessing an attribute whose entry is None loads that attribute only (the
\* other entries keep their value), returns the value its file holds, and
\* from then on attrs holds the loaded value.
C21_LazyLoad ==
    /\ [](\A n \in DatasetAttrs(dataset) :
              n \notin dataset.loaded => dataset.attrs[n] = None)
    /\ [][/\ \A n \in AttrNames :
                 (dataset.attrs[n] = None /\ dataset'.last.op = "get"
                  /\ dataset'.last.name = n)
                 => /\ dataset'.last.res = "ok"
                    /\ dataset'.last.ret = dataset.files[n]
                    /\ dataset'.attrs[n] = dataset.files[n]
                    /\ \A m \in AttrNames \ {n} :
                           dataset'.attrs[m] = dataset.attrs[m]
          /\ \A n \in dataset.loaded :
                 /\ dataset'.attrs[n] = dataset.attrs[n]
                 /\ (dataset'.last.op = "get" /\ dataset'.last.name = n)
                    => dataset'.last.ret = dataset.attrs[n]]_vars

\* one attribute of a combined file has been loaded, the other entry is
\* still None, and the file of the loaded one has been rewritten since
C21_Witness ==
    /\ dataset # NoDataset
    /\ dataset.full
    /\ dataset.loaded = {"molecule"}
    /\ dataset.attrs["hf_state"] = None
    /\ dataset.attrs["molecule"] # dataset.files["molecule"]
    /\ dataset.last.op = "get"
    /\ dataset.last.name = "molecule"

(***************************************************************************)
(* Properties of the transform dispatcher.                                  *)
(***************************************************************************)
\* C22: applying a dispatched transform to an object that is neither a
\* quantum tape, a QNode nor a callable (an operator instance, say) raises
\* TransformError.
C22_InvalidObject ==
    (/\ readback.res # "none"
     /\ ~isQuantumTape(subject.obj)
     /\ ~isQNode(subject.obj)
     /\ ~callable(subject.obj))
    => readback.res = "TransformError"

(***************************************************************************)
(* Properties of the mapper with operators.                                 *)
(***************************************************************************)
\* what get(key) gives in the state (b, c): the outcome, and the class and
\* the node of the attribute returned
Readable(b, c, key) ==
    LET r == GetOutcome(b, c, registry, key, 0)
    IN  [res |-> r.res, cls |-> r.ret.cls, node |-> r.ret.node]

\* C23: a failed set leaves the mapper unchanged.  If set(key, value) raises
\* for any reason, a failure inside the conversion of the selected type
\* included (an unsupported operator class, say), the keys of the group and
\* the attribute get gives at every key are the same as before the call.
C23_FailedSet ==
    [][(last'.op = "set" /\ last'.res # "ok")
       => /\ Iter(bind') = Iter(bind)
          /\ \A k \in Keys :
                 Readable(bind', cache', k) = Readable(bind, cache, k)]_vars

(***************************************************************************)
(* Properties of the operator group layout.                                 *)
(***************************************************************************)
\* the group g has the layout of the operator sequence value
RECURSIVE OpLayout(_, _)
OpLayout(g, value) ==
    /\ Len(g.op_class_names) = Len(value)
    /\ Len(g.op_wire_labels) = Len(value)
    /\ Len(g.children) = Len(value)
    /\ \A i \in 1..Len(value) :
           /\ g.op_wire_labels[i] = JsonNull <=> value[i].cls = "Tensor"
           /\ IF value[i].cls = "Tensor"
              THEN /\ g.children[i].kind = "group"
                   /\ OpLayout(g.children[i].group, value[i].obs)
              ELSE IF Len(value[i].data) = 0
              THEN g.children[i].kind = "empty"
              ELSE /\ g.children[i].kind = "array"
                   /\ g.children[i].data = value[i].data

\* C24: operator group layout.  Every group written for a sequence of n
\* operators, at the top level and in each sub-group of a Tensor, holds
\* op_class_names and op_wire_labels of length n and the children op_0 ..
\* op_(n-1); entry i of op_wire_labels is the sentinel null exactly when
\* operator i is a Tensor, whose op_i is a sub-group of the same layout, and
\* otherwise op_i holds the parameters of the operator, or the empty
\* sentinel when it has none.
C24_GroupLayout ==
    written.res = "ok" => OpLayout(written.group, subject.ops)

\* a list of a Tensor and a gate with a parameter has been written; the
\* factors of the Tensor have no parameters
C24_Witness ==
    /\ written.res = "ok"
    /\ subject.kind = "operator_list"
    /\ Len(subject.ops) = 2
    /\ subject.ops[1].cls = "Tensor"
    /\ subject.ops[1].obs[1].cls = "PauliX"
    /\ subject.ops[2].cls = "RX"
    /\ written.group.op_wire_labels[1] = JsonNull
    /\ written.group.children[2].kind = "array"

(***************************************************************************)
(* Properties of the condensed Hamiltonian format.                          *)
(***************************************************************************)
\* C25: Hamiltonian condensed format.  In every group written for a
\* Hamiltonian with w wires and t terms, wires has w entries, entry i being
\* the JSON encoding of the i-th wire label; ops has t Pauli-word strings of
\* length w over the letters I, X, Y, Z, letter i describing the wire at
\* compact index i; coeffs has t entries aligned with ops.
C25_CondensedFormat ==
    written.res = "ok"
    => LET g == written.group
           w == Len(subject.wires)
           t == Len(subject.ops)
       IN  /\ Len(g.wires) = w
           /\ \A i \in 1..w : g.wires[i] = JsonDump(subject.wires[i])
           /\ Len(g.ops) = t
           /\ Len(g.coeffs) = t
           /\ \A k \in 1..t :
                  /\ g.coeffs[k] = subject.coeffs[k]
                  /\ Len(g.ops[k]) = w
                  /\ \A i \in 1..w :
                         /\ g.ops[k][i] \in {"I", "X", "Y", "Z"}
                         /\ g.ops[k][i] # "I"
                            => \E j \in 1..Len(subject.ops[k]) :
                                   /\ subject.ops[k][j].wire = subject.wires[i]
                                   /\ subject.ops[k][j].pauli = g.ops[k][i]
                  /\ \A j \in 1..Len(subject.ops[k]) :
                         g.ops[k][WireIndex(subject.wires,
                                            subject.ops[k][j].wire)]
                         = subject.ops[k][j].pauli

\* a Hamiltonian of two terms on three wires has been written, one term
\* acting on two of the wires
C25_Witness ==
    /\ written.res = "ok"
    /\ Len(subject.wires) = 3
    /\ Len(subject.ops) = 2
    /\ Len(subject.ops[1]) = 2
    /\ Len(written.group.ops[1]) = 3
    /\ written.group.ops[1][2] = "I"

(***************************************************************************)
(* Properties of the operator class tables.                                 *)
(***************************************************************************)
\* C26: the operator class table used for dispatch and for resolving a
\* persisted class name is computed at most once per process.  Every call
\* after the first returns the result of the first call, so that an Operator
\* subclass defined after the first call is absent from consumes_types() and
\* is not resolved by name on read.
C26_ComputedOnce ==
    [][/\ (classes.all.set /\ classes'.last.op = "consumes_types")
          => classes'.last.ret = classes.all.val
       /\ classes.all.set => classes'.all = classes.all
       /\ classes.dict.set => classes'.dict = classes.dict
       /\ classes'.last.op = "consumes_types"
          => classes'.last.ret \cap classes'.late = {}
       /\ (/\ classes'.last.op = "zarr_to_value"
           /\ \E c \in classes'.late : Qualname(c) = classes'.last.arg)
          => classes'.last.res = "KeyError"]_vars

\* a class has been defined after the first consumes_types() call, a base
\* class of its own included, and its name has been looked up on read
C26_Witness ==
    /\ classes # NoClasses
    /\ classes.late = {"user.MyPauliX"}
    /\ "user.MyGate" \in classes.defined
    /\ classes.last.op = "zarr_to_value"
    /\ classes.last.arg = "MyPauliX"
    /\ classes.last.res = "KeyError"
    /\ "user.MyGate" \in classes.all.val

(***************************************************************************)
(* Membership, iteration and length of the mapper.                          *)
(***************************************************************************)
\* the keys for which key in mapper is true
Members(b, c) == {k \in Keys : Contains(b, c, k)}

C28_NoLabelLost ==
    readback.res = "ok"
    => /\ Len(readback.wires) = Len(subject)
       /\ \A i \in 1..Len(subject) : LabelEq(readback.wires[i], subject[i])

(***************************************************************************)
(* Properties of the class names of operators.                              *)
(***************************************************************************)
\* two lists of operators have the same classes entry by entry, the factors
\* of a Tensor included
RECURSIVE SameClasses(_, _)
SameClasses(a, b) ==
    /\ Len(a) = Len(b)
    /\ \A i \in 1..Len(a) :
           /\ a[i].cls = b[i].cls
           /\ SameClasses(a[i].obs, b[i].obs)

\* every class of supported_ops() is the class its name is resolved to
NamesResolve ==
    \A c \in SupportedOpClasses : SupportedOpsDict[OpName(c)] = c

WiresBefore(operands, g, i) ==
    UNION {operands[g[k]] : k \in {k \in 1..Len(g) : g[k] < i}}

\* C30: _group_summands partitions the summands.  Every operand of the Sum
\* is in exactly one group and no group is empty; no two operators of a
\* group share a wire; each operand is placed in the earliest-created group
\* whose accumulated wires are disjoint from its own, and a group is created
\* only when there is no such group.
C30_GroupSummands ==
    written.res = "ok"
    => LET groups == written.groups
           n == Len(subject)
       IN  /\ \A g \in 1..Len(groups) : Len(groups[g]) > 0
           /\ \A i \in 1..n :
                  Cardinality({<<g, k>> \in (1..Len(groups)) \X (1..n) :
                                  k <= Len(groups[g]) /\ groups[g][k] = i})
                  = 1
           /\ \A g \in 1..Len(groups) :
                  \A k, l \in 1..Len(groups[g]) :
                      k # l => subject[groups[g][k]]
                               \cap subject[groups[g][l]] = {}
           /\ \A g \in 1..Len(groups) :
                  \A k \in 1..Len(groups[g]) :
                      LET i == groups[g][k]
                      IN  /\ \A h \in 1..(g - 1) :
                                 /\ groups[h][1] < i
                                 /\ WiresBefore(subject, groups[h], i)
                                    \cap subject[i] # {}
                          /\ k > 1 => groups[g][k - 1] < i

\* three operands have been put in two groups, the third one joining the
\* first group after the second group was created
C30_Witness ==
    /\ written.res = "ok"
    /\ Len(subject) = 3
    /\ written.groups = <<<<1, 3>>, <<2>>>>
    /\ subject[2] # {}
====
